---- MODULE Spec2Model ----
(***************************************************************************)
(* Verification engine of the DePIN node-reward server: pending challenges,*)
(* answer adjudication (Verifier.VerifyResponse, VerifyExposedRPC), the    *)
(* expiry sweep, the answer comparator, and the Store with the trust state *)
(* of a node (warning count, cheat status, administrative review).         *)
(*                                                                         *)
(* Text is modelled as a sequence of one-character strings, so that the    *)
(* comparator's normalisation and parsing are computed, not assumed.       *)
(***************************************************************************)
EXTENDS Integers, Sequences, FiniteSets, Bags, TLC

\* ------------------------------------------------------------------------
\* Bounds of the model
\* ------------------------------------------------------------------------

\* challenge identifiers the generator may hand out while two handlers race
MaxChallenges == 2

\* challenge identifiers the generator may hand out when every input is tried
MaxIssued == 1

\* last clock value (ms) the model lets the clock reach
MaxTime == 60001

\* challenge identifiers the generator may hand out to direct verifications
MaxDirect == 2

\* results the store is given per node
MaxRecorded == 5

\* warning count up to which suspicious events are reported
MaxWarnings == 5

\* uptime intervals credited per node
MaxAwards == 1

\* results recorded one after the other in a long run of one node
MaxRun == 257

\* AddSuspiciousEvent calls in a long run
MaxSuspects == 1
MaxPasses == 2
MaxHistoryRun == 1001
MaxGen == 2

\* ------------------------------------------------------------------------
\* Program constants
\* ------------------------------------------------------------------------

LatencySuspiciousMin == 150

LatencyMaxAllowed == 5000

\* expiresIn of GenerateChallenge: one minute to answer
ExpiresIn == 60000

BlockHash == "block-hash"

BlockData == "block-data"

StateBalance == "state-balance"

SyncStatus == "sync-status"

BscFull == "bsc-full"

BscFast == "bsc-fast"

BscArchive == "bsc-archive"

OpbnbFull == "opbnb-full"

OpbnbFast == "opbnb-fast"

ExposedRPC == "exposed-rpc"

LocalProver == "local-prover"

StatusClean == "clean"

StatusWarning == "warning"

StatusFlagged == "flagged"

StatusBanned == "banned"

\* ------------------------------------------------------------------------
\* strings.ToLower, strings.TrimSpace, strings.TrimPrefix
\* ------------------------------------------------------------------------

UpperLetters ==
  <<"A","B","C","D","E","F","G","H","I","J","K","L","M",
    "N","O","P","Q","R","S","T","U","V","W","X","Y","Z">>

LowerLetters ==
  <<"a","b","c","d","e","f","g","h","i","j","k","l","m",
    "n","o","p","q","r","s","t","u","v","w","x","y","z">>

ToLowerChar(c) ==
  IF \E i \in 1..26 : UpperLetters[i] = c
    THEN LowerLetters[CHOOSE i \in 1..26 : UpperLetters[i] = c]
    ELSE c

ToLower(s) == [i \in 1..Len(s) |-> ToLowerChar(s[i])]

IsSpace(c) == c \in {" ", "\t", "\n", "\r"}

SetMin(S) == CHOOSE x \in S : \A y \in S : x <= y

SetMax(S) == CHOOSE x \in S : \A y \in S : y <= x

TrimSpace(s) ==
  LET keep == {i \in 1..Len(s) : ~IsSpace(s[i])}
  IN  IF keep = {} THEN <<>> ELSE SubSeq(s, SetMin(keep), SetMax(keep))

HasPrefix(s, p) == Len(s) >= Len(p) /\ SubSeq(s, 1, Len(p)) = p

TrimPrefix(s, p) == IF HasPrefix(s, p) THEN SubSeq(s, Len(p) + 1, Len(s)) ELSE s

\* ------------------------------------------------------------------------
\* new(big.Int).SetString(s, 16): optional sign, one or more hex digits,
\* nothing else; arbitrary precision
\* ------------------------------------------------------------------------

HexDigits == <<"0","1","2","3","4","5","6","7","8","9","a","b","c","d","e","f">>

IsHexDigit(c) == \E i \in 1..16 : HexDigits[i] = ToLowerChar(c)

HexVal(c) == (CHOOSE i \in 1..16 : HexDigits[i] = ToLowerChar(c)) - 1

RECURSIVE HexNat(_)
HexNat(ds) ==
  IF ds = <<>> THEN 0
  ELSE 16 * HexNat(SubSeq(ds, 1, Len(ds) - 1)) + HexVal(ds[Len(ds)])

SetString16(s) ==
  LET signed == Len(s) > 0 /\ s[1] \in {"+", "-"}
      digits == IF signed THEN Tail(s) ELSE s
      ok     == Len(digits) > 0 /\ \A i \in 1..Len(digits) : IsHexDigit(digits[i])
  IN  [ok  |-> ok,
       val |-> IF ~ok THEN 0
               ELSE IF s[1] = "-" THEN 0 - HexNat(digits) ELSE HexNat(digits)]

\* ------------------------------------------------------------------------
\* json.Unmarshal into map[string]interface{}, for the texts the model
\* submits: objects whose values are strings (without escape sequences) or
\* the literals true, false and null; the text null itself decodes to a nil
\* map.  json.Marshal of the decoded map writes the keys sorted, so two
\* re-serialisations are equal exactly when the decoded maps are equal.
\* ------------------------------------------------------------------------

Quote == "\""

JSONFail == [ok |-> FALSE, null |-> FALSE, map |-> <<>>]

RECURSIVE SkipWS(_, _)
SkipWS(s, i) == IF i <= Len(s) /\ IsSpace(s[i]) THEN SkipWS(s, i + 1) ELSE i

\* index of the quote that closes a string whose text starts at j, 0 if none
RECURSIVE CloseQuote(_, _)
CloseQuote(s, j) ==
  IF j > Len(s) THEN 0
  ELSE IF s[j] = Quote THEN j
  ELSE CloseQuote(s, j + 1)

JSONLiterals == { <<"t","r","u","e">>, <<"f","a","l","s","e">>, <<"n","u","l","l">> }

\* a value starting at index i: [ok, val, next]
ParseValue(s, i) ==
  IF i > Len(s) THEN [ok |-> FALSE, val |-> <<>>, next |-> i]
  ELSE IF s[i] = Quote THEN
    LET q == CloseQuote(s, i + 1)
    IN  IF q = 0 THEN [ok |-> FALSE, val |-> <<>>, next |-> i]
        ELSE [ok |-> TRUE, val |-> <<"string", SubSeq(s, i + 1, q - 1)>>, next |-> q + 1]
  ELSE IF \E l \in JSONLiterals : HasPrefix(SubSeq(s, i, Len(s)), l) THEN
    LET l == CHOOSE l \in JSONLiterals : HasPrefix(SubSeq(s, i, Len(s)), l)
    IN  [ok |-> TRUE, val |-> <<"literal", l>>, next |-> i + Len(l)]
  ELSE [ok |-> FALSE, val |-> <<>>, next |-> i]

\* the members of an object, i at the first character of a key
RECURSIVE ParseMembers(_, _, _)
ParseMembers(s, i, m) ==
  IF i > Len(s) \/ s[i] # Quote THEN JSONFail
  ELSE
    LET q == CloseQuote(s, i + 1)
    IN  IF q = 0 THEN JSONFail
        ELSE
          LET key == SubSeq(s, i + 1, q - 1)
              c   == SkipWS(s, q + 1)
          IN  IF c > Len(s) \/ s[c] # ":" THEN JSONFail
              ELSE
                LET v == ParseValue(s, SkipWS(s, c + 1))
                IN  IF ~v.ok THEN JSONFail
                    ELSE
                      LET m2 == [k \in (DOMAIN m) \cup {key} |->
                                   IF k = key THEN v.val ELSE m[k]]
                          d  == SkipWS(s, v.next)
                      IN  IF d > Len(s) THEN JSONFail
                          ELSE IF s[d] = "," THEN ParseMembers(s, SkipWS(s, d + 1), m2)
                          ELSE IF s[d] = "}" THEN
                            [ok |-> SkipWS(s, d + 1) > Len(s), null |-> FALSE, map |-> m2]
                          ELSE JSONFail

Unmarshal(s) ==
  LET i == SkipWS(s, 1)
  IN  IF TrimSpace(s) = <<"n","u","l","l">> THEN [ok |-> TRUE, null |-> TRUE, map |-> <<>>]
      ELSE IF i > Len(s) \/ s[i] # "{" THEN JSONFail
      ELSE
        LET j == SkipWS(s, i + 1)
        IN  IF j <= Len(s) /\ s[j] = "}"
              THEN [ok |-> SkipWS(s, j + 1) > Len(s), null |-> FALSE, map |-> <<>>]
              ELSE ParseMembers(s, j, <<>>)

\* ------------------------------------------------------------------------
\* Verifier.compareAnswers
\* ------------------------------------------------------------------------

\* the mutation of compareAnswers: balances are compared as texts
compareAnswers_BalanceAsText(submittedRaw, expectedRaw, challengeType) ==
  LET submitted == ToLower(TrimSpace(submittedRaw))
      expected  == ToLower(TrimSpace(expectedRaw))
  IN  CASE challengeType \in {BlockHash, StateBalance} -> submitted = expected
        [] challengeType \in {BlockData, SyncStatus} ->
             LET subObj == Unmarshal(submitted)
                 expObj == Unmarshal(expected)
             IN  IF subObj.ok /\ expObj.ok
                   THEN subObj.null = expObj.null /\ subObj.map = expObj.map
                   ELSE submitted = expected
        [] OTHER -> submitted = expected

compareAnswers(submittedRaw, expectedRaw, challengeType) ==
  LET submitted == ToLower(TrimSpace(submittedRaw))
      expected  == ToLower(TrimSpace(expectedRaw))
  IN  CASE challengeType = BlockHash -> submitted = expected
        [] challengeType = StateBalance ->
             LET subBig == SetString16(TrimPrefix(submitted, <<"0","x">>))
                 expBig == SetString16(TrimPrefix(expected, <<"0","x">>))
             IN  IF subBig.ok /\ expBig.ok THEN subBig.val = expBig.val
                 ELSE submitted = expected
        [] challengeType \in {BlockData, SyncStatus} ->
             LET subObj == Unmarshal(submitted)
                 expObj == Unmarshal(expected)
             IN  IF subObj.ok /\ expObj.ok
                   THEN subObj.null = expObj.null /\ subObj.map = expObj.map
                   ELSE submitted = expected
        [] OTHER -> submitted = expected

\* ------------------------------------------------------------------------
\* Inputs of the model
\* ------------------------------------------------------------------------

\* goroutines serving HTTP requests
Threads == {"t1", "t2"}

\* the fields of a NodeRegistration the verifier reads
ArchiveNode == [ID |-> "n1", NodeType |-> BscArchive, RPCEndpoint |-> "http://n1",
                VerificationMethod |-> ExposedRPC, WalletAddress |-> "0xw1"]

FastNode == [ID |-> "n2", NodeType |-> BscFast, RPCEndpoint |-> "",
             VerificationMethod |-> LocalProver, WalletAddress |-> "0xw2"]

Nodes == {ArchiveNode, FastNode}

\* a node type string no case of the generator names
UnknownTier == "bsc-light"

\* one node of every tier, and one of a tier that is not known
TierNodes ==
  {[ID |-> t, NodeType |-> t, RPCEndpoint |-> "http://node", VerificationMethod |-> ExposedRPC,
    WalletAddress |-> IF t \in {BscArchive, BscFull, BscFast} THEN "0xw1" ELSE "0xw2"] :
     t \in {BscArchive, BscFull, BscFast, OpbnbFull, OpbnbFast, UnknownTier}}

NodeIDs == {n.ID : n \in Nodes}

Quoted(s) == <<Quote>> \o s \o <<Quote>>

\* answers of the reference node, in the form Client.ExecuteChallenge returns
HashData == <<"0","x","a","b">>

BalanceData == <<"0","x","0","a">>

SyncData == <<"{">> \o Quoted(<<"s","y","n","c","e","d">>) \o <<":","t","r","u","e","}">>

BlockJSON ==
  <<"{">> \o Quoted(<<"h","a","s","h">>) \o <<":">> \o Quoted(<<"0","x","a","b">>)
  \o <<",">> \o Quoted(<<"p","a","r","e","n","t","H","a","s","h">>) \o <<":">> \o Quoted(<<"0","x","c","d">>)
  \o <<",">> \o Quoted(<<"s","t","a","t","e","R","o","o","t">>) \o <<":">> \o Quoted(<<"0","x","e","f">>)
  \o <<"}">>

TrustedData(challengeType) ==
  CASE challengeType = BlockHash    -> HashData
    [] challengeType = StateBalance -> BalanceData
    [] challengeType = BlockData    -> BlockJSON
    [] challengeType = SyncStatus   -> SyncData

\* the same balance without the zero padding, in upper case
BalanceUnpadded == <<"0","X","A">>

WrongAnswer == <<"n","o","p","e">>

\* balances as a node may write them: ten with and without padding, prefix,
\* upper case and surrounding space, eleven, and texts that are no number
BalanceTen == <<"0","x","0","a">>

BalanceTenUpper == <<"0","x","0","A">>

BalanceTenPadded == <<"0","x","0","0","0","a">>

BalanceTenBare == <<"a">>

BalanceTenSpaced == <<" ","0","X","0","A","\n">>

BalanceEleven == <<"0","x","0","b">>

BalanceNoNumber == <<"0","x","z","z">>

BalanceNoNumberUpper == <<"0","x","Z","Z">>

BalanceNoDigits == <<"0","x">>

BalanceTexts ==
  {BalanceTen, BalanceTenUpper, BalanceTenPadded, BalanceTenBare, BalanceTenSpaced,
   BalanceEleven, BalanceNoNumber, BalanceNoNumberUpper, BalanceNoDigits}

Answers == {HashData, BalanceUnpadded, SyncData, BlockJSON, WrongAnswer}

ResponseTimes == {50, LatencySuspiciousMin, LatencySuspiciousMin + 1,
                  LatencyMaxAllowed, LatencyMaxAllowed + 1}

\* clock advances: up to the expiry instant, and just past it
TickSteps == {ExpiresIn, ExpiresIn + 1}

\* RpcResponse of Client.ExecuteChallenge
RpcOK(data, latency) == [Success |-> TRUE, Data |-> data, Error |-> "", LatencyMs |-> latency]

RpcErr(latency) == [Success |-> FALSE, Data |-> <<>>, Error |-> "rpc error", LatencyMs |-> latency]

\* Client.call on a JSON-RPC error object: fmt.Errorf(rpcResp.Error.Message),
\* which for a message without formatting verbs is an error with that text
callError(message) == message

\* ExecuteChallenge on an error of the call: Error is err.Error()
RpcFailure(errorText, latency) ==
  [Success |-> FALSE, Data |-> <<>>, Error |-> errorText, LatencyMs |-> latency]

\* the message member of the error object a node answers with: a text, or
\* the empty string of a missing or empty member
ErrorMessages == {"execution reverted", ""}

\* the error of http.Client.Do for a node that cannot be reached
Unreachable == "dial tcp: connection refused"

\* ------------------------------------------------------------------------
\* challenge.Generator
\* ------------------------------------------------------------------------

\* the mutation of getAvailableChallengeTypes: the fast tiers and the
\* tiers it does not know are challenged like full nodes
getAvailableChallengeTypes_FastAsFull(nodeType) ==
  CASE nodeType = BscArchive -> <<BlockHash, BlockData, StateBalance, SyncStatus>>
    [] OTHER -> <<BlockHash, BlockData, SyncStatus>>

getAvailableChallengeTypes(nodeType) ==
  CASE nodeType = BscArchive -> <<BlockHash, BlockData, StateBalance, SyncStatus>>
    [] nodeType \in {BscFull, OpbnbFull} -> <<BlockHash, BlockData, SyncStatus>>
    [] OTHER -> <<BlockHash, SyncStatus>>

\* the mutation of GenerateChallenge: the lifetime is counted in seconds
GenerateChallenge_Seconds(nodeID, nodeType, id, pick, clock) ==
  [ID            |-> id,
   NodeID        |-> nodeID,
   ChallengeType |-> getAvailableChallengeTypes(nodeType)[pick + 1],
   CreatedAt     |-> clock,
   ExpiresAt     |-> clock + ExpiresIn \div 1000]

\* id stands for uuid.New(), pick for rng.Intn(len(challengeTypes))
GenerateChallenge(nodeID, nodeType, id, pick, clock) ==
  [ID            |-> id,
   NodeID        |-> nodeID,
   ChallengeType |-> getAvailableChallengeTypes(nodeType)[pick + 1],
   CreatedAt     |-> clock,
   ExpiresAt     |-> clock + ExpiresIn]

\* ------------------------------------------------------------------------
\* State
\* ------------------------------------------------------------------------

VARIABLES
  now,               \* time.Now().UnixMilli()
  nextID,            \* the next identifier uuid.New() returns
  pendingChallenges, \* Verifier.pendingChallenges
  pc,                \* where each goroutine is in its call
  frame,             \* the locals of each goroutine's call and its result
  cleaned,           \* what the last CleanupExpiredChallenges returned
  passedResults,     \* bag of the challenge IDs of the results returned with Passed
  resolved,          \* challenge IDs of the results returned with another outcome
                     \* than "challenge not found or expired"
  created,           \* what the last CreateChallenge returned, and for which node
  verifierMu,        \* the goroutine holding Verifier.mu, "" when it is free
  nodes,             \* Store.nodes
  verificationHistory, \* Store.verificationHistory
  nodesByWallet,     \* Store.nodesByWallet
  mu,                \* the goroutine holding Store.mu, "" when it is free
  call               \* the SetNodeCheatStatus call each goroutine is in

vars == <<now, nextID, pendingChallenges, pc, frame, cleaned, passedResults, resolved,
          created, verifierMu, nodes, verificationHistory, nodesByWallet, mu, call>>

\* the fields of the Store
storeVars == <<nodes, verificationHistory, nodesByWallet, mu, call>>

\* the fields of the Verifier, the clock and the calls in progress
verifierVars == <<now, nextID, pendingChallenges, pc, frame, cleaned, passedResults,
                  resolved, created, verifierMu>>

\* v.mu is taken and released within the step: the step waits until the
\* lock is free and leaves it free
MapLocked == verifierMu = "" /\ UNCHANGED verifierMu

NoChallenge == [ID |-> 0, NodeID |-> "", ChallengeType |-> "", CreatedAt |-> 0, ExpiresAt |-> 0]

NoPending == [Challenge |-> NoChallenge, ExpectedAnswer |-> <<>>]

NoResponse == [ChallengeID |-> 0, NodeID |-> "", Answer |-> <<>>, ResponseTimeMs |-> 0]

NoResult ==
  [ChallengeID |-> 0, NodeID |-> "", Passed |-> FALSE, ResponseTimeMs |-> 0,
   FailureReason |-> "", Suspicious |-> FALSE, SuspiciousNote |-> "", Timestamp |-> 0]

NoFrame == [op |-> "", response |-> NoResponse, exists |-> FALSE,
            pending |-> NoPending, result |-> NoResult]

\* the goroutine is not in a SetNodeCheatStatus call
NoCall == [at |-> "idle", nodeID |-> "", status |-> "", reason |-> ""]

\* no CreateChallenge call has returned yet; challenge 0 is the nil pointer
NoCreated == [challenge |-> 0, err |-> "", success |-> FALSE, node |-> ""]

Init ==
  /\ now = 0
  /\ nextID = 1
  /\ pendingChallenges = <<>>
  /\ pc = [t \in Threads |-> "idle"]
  /\ frame = [t \in Threads |-> NoFrame]
  /\ cleaned = 0
  /\ passedResults = EmptyBag
  /\ resolved = {}
  /\ created = NoCreated
  /\ verifierMu = ""
  /\ nodes = <<>>
  /\ verificationHistory = <<>>
  /\ nodesByWallet = <<>>
  /\ mu = ""
  /\ call = [t \in Threads |-> NoCall]

\* ------------------------------------------------------------------------
\* The clock
\* ------------------------------------------------------------------------

Tick(d) ==
  /\ now + d <= MaxTime
  /\ now' = now + d
  /\ UNCHANGED <<nextID, pendingChallenges, pc, frame, cleaned, passedResults, resolved,
                 created>>
  /\ UNCHANGED storeVars
  /\ UNCHANGED verifierMu

\* ------------------------------------------------------------------------
\* Verifier.CreateChallenge
\* ------------------------------------------------------------------------

\* variant: the record is stored before the reference answer is looked at
CreateChallenge_StoreOnError(node, pick, response, cap) ==
  /\ nextID <= cap
  /\ LET ch == GenerateChallenge(node.ID, node.NodeType, nextID, pick, now)
     IN  /\ nextID' = nextID + 1
         /\ pendingChallenges' =
              [id \in (DOMAIN pendingChallenges) \cup {ch.ID} |->
                 IF id = ch.ID
                   THEN [Challenge |-> ch, ExpectedAnswer |-> response.Data]
                   ELSE pendingChallenges[id]]
         /\ created' = IF response.Success
                         THEN [challenge |-> ch.ID, err |-> "", success |-> TRUE,
                               node |-> node.ID]
                         ELSE [challenge |-> 0,
                               err |-> "failed to get expected answer: rpc error",
                               success |-> FALSE, node |-> node.ID]
  /\ UNCHANGED <<now, pc, frame, cleaned, passedResults, resolved>>
  /\ UNCHANGED storeVars
  /\ MapLocked

CreateChallenge(node, pick, response, cap) ==
  /\ nextID <= cap
  /\ LET ch == GenerateChallenge(node.ID, node.NodeType, nextID, pick, now)
     IN  /\ nextID' = nextID + 1
         /\ IF ~response.Success
              THEN /\ UNCHANGED pendingChallenges
                   /\ created' = [challenge |-> 0,
                                  err |-> "failed to get expected answer: rpc error",
                                  success |-> response.Success, node |-> node.ID]
              ELSE /\ pendingChallenges' =
                        [id \in (DOMAIN pendingChallenges) \cup {ch.ID} |->
                           IF id = ch.ID
                             THEN [Challenge |-> ch, ExpectedAnswer |-> response.Data]
                             ELSE pendingChallenges[id]]
                   /\ created' = [challenge |-> ch.ID, err |-> "",
                                  success |-> response.Success, node |-> node.ID]
  /\ UNCHANGED <<now, pc, frame, cleaned, passedResults, resolved>>
  /\ UNCHANGED storeVars
  /\ IF response.Success THEN MapLocked ELSE UNCHANGED verifierMu

\* the mutation of CreateChallengeCall: v.mu is taken before the reference
\* node is asked
CreateChallengeCall_Locked(t, node, pick, cap) ==
  /\ pc[t] \in {"idle", "done"}
  /\ nextID <= cap
  /\ verifierMu = ""
  /\ verifierMu' = t
  /\ frame' = [frame EXCEPT ![t] =
                 [NoFrame EXCEPT
                    !.op = "CreateChallenge",
                    !.response.NodeID = node.ID,
                    !.pending.Challenge =
                       GenerateChallenge(node.ID, node.NodeType, nextID, pick, now)]]
  /\ nextID' = nextID + 1
  /\ pc' = [pc EXCEPT ![t] = "calling"]
  /\ UNCHANGED <<now, pendingChallenges, cleaned, passedResults, resolved, created>>
  /\ UNCHANGED storeVars

\* CreateChallenge statement by statement, called by goroutine t: the
\* challenge is generated and trustedRPC.ExecuteChallenge is entered
CreateChallengeCall(t, node, pick, cap) ==
  /\ pc[t] \in {"idle", "done"}
  /\ nextID <= cap
  /\ frame' = [frame EXCEPT ![t] =
                 [NoFrame EXCEPT
                    !.op = "CreateChallenge",
                    !.response.NodeID = node.ID,
                    !.pending.Challenge =
                       GenerateChallenge(node.ID, node.NodeType, nextID, pick, now)]]
  /\ nextID' = nextID + 1
  /\ pc' = [pc EXCEPT ![t] = "calling"]
  /\ UNCHANGED <<now, pendingChallenges, cleaned, passedResults, resolved, created,
                 verifierMu>>
  /\ UNCHANGED storeVars

\* ExecuteChallenge returns: the error is returned, or the answer is kept
CreateChallengeAnswer(t, response) ==
  /\ pc[t] = "calling"
  /\ frame[t].op = "CreateChallenge"
  /\ IF ~response.Success
       THEN /\ created' = [challenge |-> 0,
                           err |-> "failed to get expected answer: rpc error",
                           success |-> response.Success,
                           node |-> frame[t].response.NodeID]
            /\ pc' = [pc EXCEPT ![t] = "idle"]
            /\ UNCHANGED frame
       ELSE /\ frame' = [frame EXCEPT ![t].pending.ExpectedAnswer = response.Data]
            /\ pc' = [pc EXCEPT ![t] = "answered"]
            /\ UNCHANGED created
  /\ UNCHANGED <<now, nextID, pendingChallenges, cleaned, passedResults, resolved,
                 verifierMu>>
  /\ UNCHANGED storeVars

\* v.mu.Lock()
CreateChallengeLock(t) ==
  /\ pc[t] = "answered"
  /\ verifierMu = ""
  /\ verifierMu' = t
  /\ pc' = [pc EXCEPT ![t] = "locked"]
  /\ UNCHANGED <<now, nextID, pendingChallenges, frame, cleaned, passedResults, resolved,
                 created>>
  /\ UNCHANGED storeVars

\* v.pendingChallenges[ch.ID] = &pendingChallenge{...}
CreateChallengeStore(t) ==
  /\ pc[t] = "locked"
  /\ LET ch == frame[t].pending.Challenge
     IN  pendingChallenges' =
           [id \in (DOMAIN pendingChallenges) \cup {ch.ID} |->
              IF id = ch.ID THEN frame[t].pending ELSE pendingChallenges[id]]
  /\ pc' = [pc EXCEPT ![t] = "stored"]
  /\ UNCHANGED <<now, nextID, frame, cleaned, passedResults, resolved, created, verifierMu>>
  /\ UNCHANGED storeVars

\* v.mu.Unlock() and return ch, nil
CreateChallengeUnlock(t) ==
  /\ pc[t] = "stored"
  /\ verifierMu' = ""
  /\ created' = [challenge |-> frame[t].pending.Challenge.ID, err |-> "",
                 success |-> TRUE, node |-> frame[t].response.NodeID]
  /\ pc' = [pc EXCEPT ![t] = "idle"]
  /\ UNCHANGED <<now, nextID, pendingChallenges, frame, cleaned, passedResults, resolved>>
  /\ UNCHANGED storeVars

\* ------------------------------------------------------------------------
\* Verifier.VerifyResponse
\* ------------------------------------------------------------------------

Failed(response, reason, clock) ==
  [ChallengeID |-> response.ChallengeID, NodeID |-> response.NodeID,
   Passed |-> FALSE, ResponseTimeMs |-> response.ResponseTimeMs,
   FailureReason |-> reason, Suspicious |-> FALSE, SuspiciousNote |-> "",
   Timestamp |-> clock]

PassedResult(response, clock) ==
  [ChallengeID |-> response.ChallengeID, NodeID |-> response.NodeID,
   Passed |-> TRUE, ResponseTimeMs |-> response.ResponseTimeMs,
   FailureReason |-> "", Suspicious |-> FALSE, SuspiciousNote |-> "",
   Timestamp |-> clock]

NotFoundResult(response, clock) == Failed(response, "challenge not found or expired", clock)

ExpiredResult(response, clock) == Failed(response, "challenge expired", clock)

IncorrectResult(response, clock) == Failed(response, "incorrect answer", clock)

\* variant: the latency failure also raises the suspicious flag
TooSlowResult_Flagged(response, clock) ==
  [Failed(response, "response too slow", clock) EXCEPT
     !.Suspicious = TRUE, !.SuspiciousNote = "latency above the allowed maximum"]

TooSlowResult(response, clock) == Failed(response, "response too slow", clock)

\* variant: the expiry instant itself already counts as expired
IsExpired_Inclusive(clock, challenge) == clock >= challenge.ExpiresAt

\* variant: one millisecond of grace after the expiry instant
IsExpired_Grace(clock, challenge) == clock > challenge.ExpiresAt + 1

IsExpired(clock, challenge) == clock > challenge.ExpiresAt

\* variant: the ceiling taken in seconds instead of milliseconds
IsTooSlow_Seconds(responseTimeMs) == responseTimeMs > LatencyMaxAllowed * 1000

IsTooSlow(responseTimeMs) == responseTimeMs > LatencyMaxAllowed

\* variant: the latency ceiling checked before the answer
Adjudicate_LatencyFirst(response, exists, pending, clock) ==
  IF ~exists THEN NotFoundResult(response, clock)
  ELSE IF IsExpired(clock, pending.Challenge) THEN ExpiredResult(response, clock)
  ELSE IF IsTooSlow(response.ResponseTimeMs) THEN TooSlowResult(response, clock)
  ELSE IF ~compareAnswers(response.Answer, pending.ExpectedAnswer,
                          pending.Challenge.ChallengeType)
    THEN IncorrectResult(response, clock)
  ELSE PassedResult(response, clock)

\* the checks after the map lookup, in the order of the code
Adjudicate(response, exists, pending, clock) ==
  IF ~exists THEN NotFoundResult(response, clock)
  ELSE IF IsExpired(clock, pending.Challenge) THEN ExpiredResult(response, clock)
  ELSE IF ~compareAnswers(response.Answer, pending.ExpectedAnswer,
                          pending.Challenge.ChallengeType)
    THEN IncorrectResult(response, clock)
  ELSE IF IsTooSlow(response.ResponseTimeMs) THEN TooSlowResult(response, clock)
  ELSE PassedResult(response, clock)

\* variant: the record is left in the map
deleteChallenge_Skipped(map, id) == map

\* deleteChallenge: delete(v.pendingChallenges, id) under the write lock
deleteChallenge(map, id) == [k \in (DOMAIN map) \ {id} |-> map[k]]

\* the lookup under the read lock
VerifyResponseLookup(t, response) ==
  /\ pc[t] \in {"idle", "done"}
  /\ LET exists == response.ChallengeID \in DOMAIN pendingChallenges
     IN  frame' = [frame EXCEPT ![t] =
                     [op       |-> "VerifyResponse",
                      response |-> response,
                      exists   |-> exists,
                      pending  |-> IF exists THEN pendingChallenges[response.ChallengeID]
                                   ELSE NoPending,
                      result   |-> NoResult]]
  /\ pc' = [pc EXCEPT ![t] = "looked"]
  /\ UNCHANGED <<now, nextID, pendingChallenges, cleaned, passedResults, resolved, created>>
  /\ UNCHANGED storeVars
  /\ MapLocked

\* the clock read, the checks, deleteChallenge and the return
VerifyResponseReturn(t) ==
  /\ pc[t] = "looked"
  /\ LET f      == frame[t]
         result == Adjudicate(f.response, f.exists, f.pending, now)
         id     == f.response.ChallengeID
     IN  /\ frame' = [frame EXCEPT ![t].result = result]
         /\ pendingChallenges' =
              IF f.exists THEN deleteChallenge(pendingChallenges, id) ELSE pendingChallenges
         /\ passedResults' =
              IF result.Passed THEN passedResults (+) SetToBag({id}) ELSE passedResults
         /\ resolved' = IF result.FailureReason # "challenge not found or expired"
                           THEN resolved \cup {id} ELSE resolved
  /\ pc' = [pc EXCEPT ![t] = "done"]
  /\ UNCHANGED <<now, nextID, cleaned, created>>
  /\ UNCHANGED storeVars
  /\ IF frame[t].exists THEN MapLocked ELSE UNCHANGED verifierMu

\* ------------------------------------------------------------------------
\* Verifier.CleanupExpiredChallenges
\* ------------------------------------------------------------------------

\* variant: an entry is dropped at its expiry instant already
CleanupExpiredChallenges_Inclusive ==
  LET expired == {id \in DOMAIN pendingChallenges :
                    now >= pendingChallenges[id].Challenge.ExpiresAt}
  IN  /\ pendingChallenges' =
           [id \in (DOMAIN pendingChallenges) \ expired |-> pendingChallenges[id]]
      /\ cleaned' = Cardinality(expired)
      /\ UNCHANGED <<now, nextID, pc, frame, passedResults, resolved, created>>
      /\ UNCHANGED storeVars
      /\ MapLocked

\* variant: the expired entries are counted and left in the map
CleanupExpiredChallenges_CountOnly ==
  LET expired == {id \in DOMAIN pendingChallenges :
                    now > pendingChallenges[id].Challenge.ExpiresAt}
  IN  /\ cleaned' = Cardinality(expired)
      /\ UNCHANGED <<now, nextID, pendingChallenges, pc, frame, passedResults, resolved,
                     created>>
      /\ UNCHANGED storeVars
      /\ MapLocked

CleanupExpiredChallenges ==
  LET expired == {id \in DOMAIN pendingChallenges :
                    now > pendingChallenges[id].Challenge.ExpiresAt}
  IN  /\ pendingChallenges' =
           [id \in (DOMAIN pendingChallenges) \ expired |-> pendingChallenges[id]]
      /\ cleaned' = Cardinality(expired)
      /\ UNCHANGED <<now, nextID, pc, frame, passedResults, resolved, created>>
      /\ UNCHANGED storeVars
      /\ MapLocked

\* ------------------------------------------------------------------------
\* Verifier.VerifyExposedRPC
\* ------------------------------------------------------------------------

ExposedResult(node, id, passed, responseTimeMs, reason, clock) ==
  [ChallengeID |-> id, NodeID |-> node.ID, Passed |-> passed,
   ResponseTimeMs |-> responseTimeMs, FailureReason |-> reason,
   Suspicious |-> FALSE, SuspiciousNote |-> "", Timestamp |-> clock]

\* id 0 stands for the "direct-<now>" identifier of a node without endpoint
ExposedAdjudicate(node, ch, expectedResponse, userResponse, clock) ==
  IF node.RPCEndpoint = ""
    THEN ExposedResult(node, 0, FALSE, 0, "no RPC endpoint configured", clock)
  ELSE IF ~expectedResponse.Success
    THEN ExposedResult(node, ch.ID, FALSE, 0, "trusted node error: rpc error", clock)
  ELSE IF ~userResponse.Success
    THEN ExposedResult(node, ch.ID, FALSE, userResponse.LatencyMs, userResponse.Error, clock)
  ELSE IF ~compareAnswers(userResponse.Data, expectedResponse.Data, ch.ChallengeType)
    THEN ExposedResult(node, ch.ID, FALSE, userResponse.LatencyMs, "incorrect answer", clock)
  ELSE ExposedResult(node, ch.ID, TRUE, userResponse.LatencyMs, "", clock)

\* variant: the generated challenge is stored like one of CreateChallenge
VerifyExposedRPC_Inserting(t, node, pick, expectedResponse, userResponse, cap) ==
  /\ pc[t] \in {"idle", "done"}
  /\ IF node.RPCEndpoint = ""
       THEN /\ frame' = [frame EXCEPT ![t] =
                           [NoFrame EXCEPT
                              !.op = "VerifyExposedRPC",
                              !.result = ExposedAdjudicate(node, NoChallenge, expectedResponse,
                                                           userResponse, now)]]
            /\ UNCHANGED nextID
       ELSE /\ nextID <= cap
            /\ LET ch == GenerateChallenge(node.ID, node.NodeType, nextID, pick, now)
               IN  frame' = [frame EXCEPT ![t] =
                        [op       |-> "VerifyExposedRPC",
                         response |-> [ChallengeID |-> ch.ID, NodeID |-> node.ID,
                                       Answer |-> userResponse.Data,
                                       ResponseTimeMs |-> userResponse.LatencyMs],
                         exists   |-> FALSE,
                         pending  |-> [Challenge |-> ch,
                                       ExpectedAnswer |-> expectedResponse.Data],
                         result   |-> ExposedAdjudicate(node, ch, expectedResponse,
                                                        userResponse, now)]]
            /\ nextID' = nextID + 1
  /\ pc' = [pc EXCEPT ![t] = "done"]
  /\ pendingChallenges' =
       IF node.RPCEndpoint = "" \/ ~expectedResponse.Success THEN pendingChallenges
       ELSE [id \in (DOMAIN pendingChallenges) \cup {nextID} |->
               IF id = nextID
                 THEN [Challenge |-> GenerateChallenge(node.ID, node.NodeType, nextID, pick, now),
                       ExpectedAnswer |-> expectedResponse.Data]
                 ELSE pendingChallenges[id]]
  /\ UNCHANGED <<now, cleaned, passedResults, resolved, created, verifierMu>>

\* the frame keeps the generated challenge, the reference answer and the
\* candidate's answer and latency next to the result
VerifyExposedRPC(t, node, pick, expectedResponse, userResponse, cap) ==
  /\ pc[t] \in {"idle", "done"}
  /\ IF node.RPCEndpoint = ""
       THEN /\ frame' = [frame EXCEPT ![t] =
                           [NoFrame EXCEPT
                              !.op = "VerifyExposedRPC",
                              !.result = ExposedAdjudicate(node, NoChallenge, expectedResponse,
                                                           userResponse, now)]]
            /\ UNCHANGED nextID
       ELSE /\ nextID <= cap
            /\ LET ch == GenerateChallenge(node.ID, node.NodeType, nextID, pick, now)
               IN  frame' = [frame EXCEPT ![t] =
                        [op       |-> "VerifyExposedRPC",
                         response |-> [ChallengeID |-> ch.ID, NodeID |-> node.ID,
                                       Answer |-> userResponse.Data,
                                       ResponseTimeMs |-> userResponse.LatencyMs],
                         exists   |-> FALSE,
                         pending  |-> [Challenge |-> ch,
                                       ExpectedAnswer |-> expectedResponse.Data],
                         result   |-> ExposedAdjudicate(node, ch, expectedResponse,
                                                        userResponse, now)]]
            /\ nextID' = nextID + 1
  /\ pc' = [pc EXCEPT ![t] = "done"]
  /\ UNCHANGED <<now, pendingChallenges, cleaned, passedResults, resolved, created,
                 verifierMu>>

\* ------------------------------------------------------------------------
\* store.Store
\* ------------------------------------------------------------------------

\* results kept per node
HistoryCap == 1000

\* suspicious events kept per node
SuspiciousEventsCap == 20

\* warning counts at which the status escalates
FlaggedAt == 5

WarningAt == 2

RegistrationBonus(nodeType) ==
  CASE nodeType = BscArchive -> 100
    [] nodeType = BscFull    -> 50
    [] nodeType = BscFast    -> 40
    [] nodeType = OpbnbFull  -> 40
    [] nodeType = OpbnbFast  -> 30
    [] OTHER                 -> 0

PointsPerHour(nodeType) ==
  CASE nodeType = BscArchive -> 10
    [] nodeType = BscFull    -> 6
    [] nodeType = BscFast    -> 4
    [] nodeType = OpbnbFull  -> 4
    [] nodeType = OpbnbFast  -> 3
    [] OTHER                 -> 0

\* time.Now().Format("2006-01-02 15:04"): the clock cut to the minute
FormatMinute(clock) == clock \div 60000

\* an entry of SuspiciousEvents: the formatted minute, ": ", the text
EventText(clock, text) == [at |-> FormatMinute(clock), text |-> text]

\* s.mu.Lock() with defer s.mu.Unlock() around a whole call: the call runs
\* when the lock is free and leaves it free
WholeCallLocked == mu = "" /\ UNCHANGED <<mu, call>>

\* s.nodesByWallet[walletAddress], nil for a wallet without nodes
walletNodes(walletAddress) ==
  IF walletAddress \in DOMAIN nodesByWallet THEN nodesByWallet[walletAddress] ELSE <<>>

\* the mutation of RegisterNode: the list of the wallet holds the new node only
RegisterNode_WalletReset(node) ==
  /\ WholeCallLocked
  /\ node.ID \notin DOMAIN nodes
  /\ nodesByWallet' =
       [w \in (DOMAIN nodesByWallet) \cup {node.WalletAddress} |->
          IF w = node.WalletAddress THEN <<node.ID>> ELSE nodesByWallet[w]]
  /\ nodes' =
       [id \in (DOMAIN nodes) \cup {node.ID} |->
          IF id = node.ID
            THEN [ID                    |-> node.ID,
                  WalletAddress         |-> node.WalletAddress,
                  NodeType              |-> node.NodeType,
                  VerificationMethod    |-> node.VerificationMethod,
                  RPCEndpoint           |-> node.RPCEndpoint,
                  RegisteredAt          |-> now,
                  IsActive              |-> TRUE,
                  TotalPoints           |-> RegistrationBonus(node.NodeType),
                  TotalUptimeMinutes    |-> 0,
                  TotalChallengesPassed |-> 0,
                  TotalChallengesFailed |-> 0,
                  LastVerifiedAt        |-> 0,
                  LastHeartbeatAt       |-> 0,
                  CheatStatus           |-> StatusClean,
                  CheatReason           |-> "",
                  WarningCount          |-> 0,
                  SuspiciousEvents      |-> <<>>]
            ELSE nodes[id]]
  /\ UNCHANGED verificationHistory

\* Store.RegisterNode; node.ID stands for uuid.New().String()
RegisterNode(node) ==
  /\ WholeCallLocked
  /\ node.ID \notin DOMAIN nodes
  /\ nodesByWallet' =
       [w \in (DOMAIN nodesByWallet) \cup {node.WalletAddress} |->
          IF w = node.WalletAddress THEN Append(walletNodes(w), node.ID)
          ELSE nodesByWallet[w]]
  /\ nodes' =
       [id \in (DOMAIN nodes) \cup {node.ID} |->
          IF id = node.ID
            THEN [ID                    |-> node.ID,
                  WalletAddress         |-> node.WalletAddress,
                  NodeType              |-> node.NodeType,
                  VerificationMethod    |-> node.VerificationMethod,
                  RPCEndpoint           |-> node.RPCEndpoint,
                  RegisteredAt          |-> now,
                  IsActive              |-> TRUE,
                  TotalPoints           |-> RegistrationBonus(node.NodeType),
                  TotalUptimeMinutes    |-> 0,
                  TotalChallengesPassed |-> 0,
                  TotalChallengesFailed |-> 0,
                  LastVerifiedAt        |-> 0,
                  LastHeartbeatAt       |-> 0,
                  CheatStatus           |-> StatusClean,
                  CheatReason           |-> "",
                  WarningCount          |-> 0,
                  SuspiciousEvents      |-> <<>>]
            ELSE nodes[id]]
  /\ UNCHANGED verificationHistory

\* the mutation of appendCapped: a full list turns the new entry away
appendCapped_DropNewest(list, entry, cap) ==
  IF Len(list) >= cap THEN list ELSE Append(list, entry)

\* the mutation of appendCapped: the oldest entry goes when the list is
\* at the cap already
appendCapped_OneShort(list, entry, cap) ==
  LET longer == Append(list, entry)
  IN  IF Len(longer) >= cap THEN Tail(longer) ELSE longer

\* append and drop the oldest entry once the list is longer than the cap
appendCapped(list, entry, cap) ==
  LET longer == Append(list, entry)
  IN  IF Len(longer) > cap THEN Tail(longer) ELSE longer

\* variant: the status follows the count from the first warning on
escalate_Eager(node, event, flaggedReason) ==
  IF node.WarningCount >= FlaggedAt - 1
    THEN [node EXCEPT !.CheatStatus = StatusFlagged, !.CheatReason = flaggedReason]
  ELSE IF node.WarningCount >= WarningAt - 1
    THEN [node EXCEPT !.CheatStatus = StatusWarning, !.CheatReason = event]
  ELSE node

\* the mutation of escalate: the warning comes one event later
escalate_LateWarning(node, event, flaggedReason) ==
  IF node.WarningCount >= FlaggedAt
    THEN [node EXCEPT !.CheatStatus = StatusFlagged, !.CheatReason = flaggedReason]
  ELSE IF node.WarningCount >= WarningAt + 1
    THEN [node EXCEPT !.CheatStatus = StatusWarning, !.CheatReason = event]
  ELSE node

\* the escalation on the warning count just incremented
escalate(node, event, flaggedReason) ==
  IF node.WarningCount >= FlaggedAt
    THEN [node EXCEPT !.CheatStatus = StatusFlagged, !.CheatReason = flaggedReason]
  ELSE IF node.WarningCount >= WarningAt
    THEN [node EXCEPT !.CheatStatus = StatusWarning, !.CheatReason = event]
  ELSE node

\* the event appended to the ring, WarningCount++ on a uint8, the escalation
trackSuspicious(node, event, flaggedReason, clock) ==
  escalate([node EXCEPT
              !.SuspiciousEvents =
                 appendCapped(@, EventText(clock, event), SuspiciousEventsCap),
              !.WarningCount = (@ + 1) % 256],
           event, flaggedReason)

\* the mutation of recordStats: LastVerifiedAt is the time of the call
recordStats_Clock(node, result, clock) ==
  LET counted == [node EXCEPT
                    !.TotalChallengesPassed = IF result.Passed THEN @ + 1 ELSE @,
                    !.TotalChallengesFailed = IF result.Passed THEN @ ELSE @ + 1,
                    !.LastVerifiedAt = clock]
      event   == IF result.SuspiciousNote = "" THEN "Suspicious verification detected"
                 ELSE result.SuspiciousNote
  IN  IF result.Suspicious
        THEN trackSuspicious(counted, event,
                             "Multiple suspicious activities - needs manual review", clock)
        ELSE counted

\* the mutation of recordStats: every passed result is tracked as suspicious
recordStats_PassTracked(node, result, clock) ==
  LET counted == [node EXCEPT
                    !.TotalChallengesPassed = IF result.Passed THEN @ + 1 ELSE @,
                    !.TotalChallengesFailed = IF result.Passed THEN @ ELSE @ + 1,
                    !.LastVerifiedAt = result.Timestamp]
      event   == IF result.SuspiciousNote = "" THEN "Suspicious verification detected"
                 ELSE result.SuspiciousNote
  IN  IF result.Passed
        THEN trackSuspicious(counted, event,
                             "Multiple suspicious activities - needs manual review", clock)
        ELSE counted

\* the node after the statistics of a result are recorded on it
recordStats(node, result, clock) ==
  LET counted == [node EXCEPT
                    !.TotalChallengesPassed = IF result.Passed THEN @ + 1 ELSE @,
                    !.TotalChallengesFailed = IF result.Passed THEN @ ELSE @ + 1,
                    !.LastVerifiedAt = result.Timestamp]
      event   == IF result.SuspiciousNote = "" THEN "Suspicious verification detected"
                 ELSE result.SuspiciousNote
  IN  IF result.Suspicious
        THEN trackSuspicious(counted, event,
                             "Multiple suspicious activities - needs manual review", clock)
        ELSE counted

historyOf(nodeID) ==
  IF nodeID \in DOMAIN verificationHistory THEN verificationHistory[nodeID] ELSE <<>>

\* Store.RecordVerificationResult, on the fields of the Store
RecordVerificationResult(result) ==
  /\ WholeCallLocked
  /\ verificationHistory' =
       [id \in (DOMAIN verificationHistory) \cup {result.NodeID} |->
          IF id = result.NodeID
            THEN appendCapped(historyOf(id), result, HistoryCap)
            ELSE verificationHistory[id]]
  /\ nodes' = IF result.NodeID \in DOMAIN nodes
                THEN [nodes EXCEPT ![result.NodeID] = recordStats(@, result, now)]
                ELSE nodes
  /\ UNCHANGED nodesByWallet

\* the mutation of awardUptime: only a Banned node goes without points
awardUptime_FlaggedPaid(node, minutesOnline, clock) ==
  IF ~node.IsActive THEN node
  ELSE IF node.CheatStatus = StatusBanned THEN node
  ELSE LET perHour     == PointsPerHour(node.NodeType) \div 12
           perInterval == IF perHour < 1 THEN 1 ELSE perHour
       IN  [node EXCEPT !.TotalUptimeMinutes = @ + minutesOnline,
                        !.LastHeartbeatAt = clock,
                        !.TotalPoints = @ + perInterval]

\* the mutation of awardUptime: the rate of the interval is not raised to 1
awardUptime_NoFloor(node, minutesOnline, clock) ==
  IF ~node.IsActive THEN node
  ELSE IF node.CheatStatus \in {StatusFlagged, StatusBanned} THEN node
  ELSE [node EXCEPT !.TotalUptimeMinutes = @ + minutesOnline,
                    !.LastHeartbeatAt = clock,
                    !.TotalPoints = @ + PointsPerHour(node.NodeType) \div 12]

\* what AwardUptimePoints does to a registered node
awardUptime(node, minutesOnline, clock) ==
  IF ~node.IsActive THEN node
  ELSE IF node.CheatStatus \in {StatusFlagged, StatusBanned} THEN node
  ELSE LET perHour     == PointsPerHour(node.NodeType) \div 12
           perInterval == IF perHour < 1 THEN 1 ELSE perHour
       IN  [node EXCEPT !.TotalUptimeMinutes = @ + minutesOnline,
                        !.LastHeartbeatAt = clock,
                        !.TotalPoints = @ + perInterval]

\* Store.AwardUptimePoints
AwardUptimePoints(nodeID, minutesOnline) ==
  /\ WholeCallLocked
  /\ nodes' =
       IF nodeID \notin DOMAIN nodes THEN nodes
       ELSE [nodes EXCEPT ![nodeID] = awardUptime(@, minutesOnline, now)]
  /\ UNCHANGED <<verificationHistory, nodesByWallet>>

\* Store.AddSuspiciousEvent
AddSuspiciousEvent(nodeID, reason) ==
  /\ WholeCallLocked
  /\ nodes' =
       IF nodeID \notin DOMAIN nodes THEN nodes
       ELSE [nodes EXCEPT ![nodeID] =
               trackSuspicious(@, reason,
                 "Multiple suspicious activities detected - needs manual review", now)]
  /\ UNCHANGED <<verificationHistory, nodesByWallet>>

\* the mutation of SetNodeCheatStatus: a ban leaves the node active
SetNodeCheatStatus_StaysActive(nodeID, status, reason) ==
  /\ WholeCallLocked
  /\ nodes' =
       IF nodeID \notin DOMAIN nodes THEN nodes
       ELSE [nodes EXCEPT ![nodeID] =
               [@ EXCEPT !.CheatStatus = status,
                         !.CheatReason = reason,
                         !.WarningCount = IF status = StatusClean THEN 0 ELSE @,
                         !.SuspiciousEvents = IF status = StatusClean THEN <<>> ELSE @,
                         !.IsActive = @]]
  /\ UNCHANGED <<verificationHistory, nodesByWallet>>

\* the mutation of SetNodeCheatStatus: a clear makes the node active again
SetNodeCheatStatus_Reactivate(nodeID, status, reason) ==
  /\ WholeCallLocked
  /\ nodes' =
       IF nodeID \notin DOMAIN nodes THEN nodes
       ELSE [nodes EXCEPT ![nodeID] =
               [@ EXCEPT !.CheatStatus = status,
                         !.CheatReason = reason,
                         !.WarningCount = IF status = StatusClean THEN 0 ELSE @,
                         !.SuspiciousEvents = IF status = StatusClean THEN <<>> ELSE @,
                         !.IsActive = IF status = StatusBanned THEN FALSE ELSE IF status = StatusClean THEN TRUE ELSE @]]
  /\ UNCHANGED <<verificationHistory, nodesByWallet>>

\* Store.SetNodeCheatStatus
SetNodeCheatStatus(nodeID, status, reason) ==
  /\ WholeCallLocked
  /\ nodes' =
       IF nodeID \notin DOMAIN nodes THEN nodes
       ELSE [nodes EXCEPT ![nodeID] =
               [@ EXCEPT !.CheatStatus = status,
                         !.CheatReason = reason,
                         !.WarningCount = IF status = StatusClean THEN 0 ELSE @,
                         !.SuspiciousEvents = IF status = StatusClean THEN <<>> ELSE @,
                         !.IsActive = IF status = StatusBanned THEN FALSE ELSE @]]
  /\ UNCHANGED <<verificationHistory, nodesByWallet>>

\* Store.SetNodeCheatStatus statement by statement, called by goroutine t:
\* s.mu.Lock()
SetNodeCheatStatusLock(t, nodeID, status, reason) ==
  /\ mu = ""
  /\ call[t] = NoCall
  /\ mu' = t
  /\ call' = [call EXCEPT ![t] = [at |-> "locked", nodeID |-> nodeID,
                                   status |-> status, reason |-> reason]]
  /\ UNCHANGED <<nodes, verificationHistory, nodesByWallet>>

\* the mutation of SetNodeCheatStatusAssign: the lock is let go once the
\* status is written
SetNodeCheatStatusAssign_Unlocked(t) ==
  /\ call[t].at = "locked"
  /\ mu' = ""
  /\ IF call[t].nodeID \notin DOMAIN nodes
        THEN /\ call' = [call EXCEPT ![t] = NoCall]
             /\ UNCHANGED nodes
        ELSE /\ nodes' = [nodes EXCEPT ![call[t].nodeID] =
                            [@ EXCEPT !.CheatStatus = call[t].status,
                                      !.CheatReason = call[t].reason]]
             /\ call' = [call EXCEPT ![t].at = "assigned"]
  /\ UNCHANGED <<verificationHistory, nodesByWallet>>

\* the lookup, false with the deferred Unlock for an unknown node, and the
\* assignments of CheatStatus and CheatReason
SetNodeCheatStatusAssign(t) ==
  /\ call[t].at = "locked"
  /\ IF call[t].nodeID \notin DOMAIN nodes
        THEN /\ mu' = ""
             /\ call' = [call EXCEPT ![t] = NoCall]
             /\ UNCHANGED nodes
        ELSE /\ nodes' = [nodes EXCEPT ![call[t].nodeID] =
                            [@ EXCEPT !.CheatStatus = call[t].status,
                                      !.CheatReason = call[t].reason]]
             /\ call' = [call EXCEPT ![t].at = "assigned"]
             /\ UNCHANGED mu
  /\ UNCHANGED <<verificationHistory, nodesByWallet>>

\* node.WarningCount = 0 when the status is Clean
SetNodeCheatStatusCount(t) ==
  /\ call[t].at = "assigned"
  /\ nodes' = IF call[t].status = StatusClean
                THEN [nodes EXCEPT ![call[t].nodeID].WarningCount = 0]
                ELSE nodes
  /\ call' = [call EXCEPT ![t].at = "counted"]
  /\ UNCHANGED <<mu, verificationHistory, nodesByWallet>>

\* node.SuspiciousEvents = []string{} when the status is Clean
SetNodeCheatStatusEvents(t) ==
  /\ call[t].at = "counted"
  /\ nodes' = IF call[t].status = StatusClean
                THEN [nodes EXCEPT ![call[t].nodeID].SuspiciousEvents = <<>>]
                ELSE nodes
  /\ call' = [call EXCEPT ![t].at = "reset"]
  /\ UNCHANGED <<mu, verificationHistory, nodesByWallet>>

\* node.IsActive = false when the status is Banned, return true and the
\* deferred s.mu.Unlock()
SetNodeCheatStatusUnlock(t) ==
  /\ call[t].at = "reset"
  /\ nodes' = IF call[t].status = StatusBanned
                THEN [nodes EXCEPT ![call[t].nodeID].IsActive = FALSE]
                ELSE nodes
  /\ mu' = ""
  /\ call' = [call EXCEPT ![t] = NoCall]
  /\ UNCHANGED <<verificationHistory, nodesByWallet>>

\* ------------------------------------------------------------------------
\* Handlers on the Store
\* ------------------------------------------------------------------------

\* Handlers.ReviewNode: any other action is answered 400
ReviewNode(nodeID, action, reason) ==
  /\ action \in {"clear", "warn", "ban"}
  /\ SetNodeCheatStatus(nodeID,
                        CASE action = "clear" -> StatusClean
                          [] action = "warn"  -> StatusWarning
                          [] action = "ban"   -> StatusBanned,
                        reason)

\* Handlers.RequestChallenge: 404 for an unknown node, 400 for an inactive
\* one; otherwise CreateChallenge is called for the node
RequestChallenge(nodeID, pick, response, cap) ==
  /\ nodeID \in DOMAIN nodes
  /\ nodes[nodeID].IsActive
  /\ CreateChallenge(nodes[nodeID], pick, response, cap)

\* Handlers.VerifyNode: 404 for an unknown node, 400 for one that does not
\* expose its RPC; otherwise the result of VerifyExposedRPC is recorded
VerifyNode(t, nodeID, pick, expectedResponse, userResponse, cap) ==
  /\ nodeID \in DOMAIN nodes
  /\ nodes[nodeID].VerificationMethod = ExposedRPC
  /\ VerifyExposedRPC(t, nodes[nodeID], pick, expectedResponse, userResponse, cap)
  /\ RecordVerificationResult(frame'[t].result)

\* ------------------------------------------------------------------------
\* Specifications
\* ------------------------------------------------------------------------

\* what the reference node may answer to a challenge of the node
TrustedResponses(node, pick) ==
  {RpcOK(TrustedData(getAvailableChallengeTypes(node.NodeType)[pick + 1]), 20), RpcErr(20)}

Picks(node) == 0..(Len(getAvailableChallengeTypes(node.NodeType)) - 1)

\* identifiers a client can submit: the ones handed out, and an unknown one
KnownIDs == 0..(nextID - 1)

Create(candidates, cap) ==
  \E node \in candidates : \E pick \in Picks(node) :
    \E response \in TrustedResponses(node, pick) : CreateChallenge(node, pick, response, cap)

Lookup(threads, nodeIDs, answers, times) ==
  \E t \in threads : \E id \in KnownIDs : \E n \in nodeIDs :
    \E a \in answers : \E ms \in times :
      VerifyResponseLookup(t, [ChallengeID |-> id, NodeID |-> n,
                               Answer |-> a, ResponseTimeMs |-> ms])

Return(threads) == \E t \in threads : VerifyResponseReturn(t)

Advance == \E d \in TickSteps : Tick(d)

Sweep == CleanupExpiredChallenges

\* latencies the server measures on the candidate's endpoint
MeasuredLatencies == {50, LatencySuspiciousMin + 1, LatencyMaxAllowed + 1}

Exposed(threads, candidates, cap) ==
  \E t \in threads : \E node \in candidates : \E pick \in Picks(node) :
    \E expectedResponse \in TrustedResponses(node, pick) :
      \E ms \in MeasuredLatencies :
        \E userResponse \in {RpcOK(expectedResponse.Data, ms), RpcOK(WrongAnswer, ms), RpcErr(ms)} :
          /\ VerifyExposedRPC(t, node, pick, expectedResponse, userResponse, cap)
          /\ UNCHANGED storeVars

\* one request handler at a time, every input
Next ==
  \/ Advance
  \/ Create({ArchiveNode}, MaxIssued)
  \/ Lookup({"t1"}, {ArchiveNode.ID}, Answers, ResponseTimes)
  \/ Return({"t1"})
  \/ Sweep
  \/ Exposed({"t1"}, Nodes, MaxIssued)

Spec == Init /\ [][Next]_vars

\* two request handlers racing, on block-hash and sync-status challenges
NextRace ==
  \/ Advance
  \/ Create({FastNode}, MaxChallenges)
  \/ Lookup(Threads, {FastNode.ID}, {HashData, SyncData}, {50})
  \/ Return(Threads)
  \/ Sweep

SpecRace == Init /\ [][NextRace]_vars

Register(candidates) ==
  \E node \in candidates : RegisterNode(node) /\ UNCHANGED verifierVars

Direct(threads, latencies, cap) ==
  \E t \in threads : \E nodeID \in NodeIDs \cap DOMAIN nodes :
    \E pick \in Picks(nodes[nodeID]) :
      \E expectedResponse \in TrustedResponses(nodes[nodeID], pick) :
        \E ms \in latencies :
          \E userResponse \in {RpcOK(expectedResponse.Data, ms), RpcOK(WrongAnswer, ms),
                                RpcErr(ms)} :
            VerifyNode(t, nodeID, pick, expectedResponse, userResponse, cap)

\* direct verifications of registered nodes next to issued challenges
NextDirect ==
  \/ Register(Nodes)
  \/ Create({ArchiveNode}, MaxDirect)
  \/ Direct({"t1"}, {50}, MaxDirect)
  \/ Sweep
  \/ Advance

SpecDirect == Init /\ [][NextDirect]_vars

\* results handed to the store: a pass flagged suspicious and a plain failure
StoreResults(nodeID) ==
  {[ChallengeID |-> 0, NodeID |-> nodeID, Passed |-> TRUE,
    ResponseTimeMs |-> LatencySuspiciousMin + 1, FailureReason |-> "",
    Suspicious |-> TRUE, SuspiciousNote |-> "", Timestamp |-> now],
   [ChallengeID |-> 0, NodeID |-> nodeID, Passed |-> FALSE,
    ResponseTimeMs |-> 50, FailureReason |-> "incorrect answer",
    Suspicious |-> FALSE, SuspiciousNote |-> "", Timestamp |-> now]}

\* the node is not registered, or its warning count is below the bound
BelowMaxWarnings(nodeID) ==
  nodeID \in DOMAIN nodes => nodes[nodeID].WarningCount < MaxWarnings

\* minutes credited by one AwardUptimePoints call
UptimeInterval == 5

Record(nodeIDs) ==
  \E nodeID \in nodeIDs : \E result \in StoreResults(nodeID) :
    /\ Len(historyOf(nodeID)) < MaxRecorded
    /\ result.Suspicious => BelowMaxWarnings(nodeID)
    /\ RecordVerificationResult(result)
    /\ UNCHANGED verifierVars

Suspect(nodeIDs) ==
  \E nodeID \in nodeIDs :
    /\ BelowMaxWarnings(nodeID)
    /\ AddSuspiciousEvent(nodeID, "proxy suspected")
    /\ UNCHANGED verifierVars

Award(nodeIDs) ==
  \E nodeID \in nodeIDs :
    /\ nodeID \in DOMAIN nodes =>
         nodes[nodeID].TotalUptimeMinutes < UptimeInterval * MaxAwards
    /\ AwardUptimePoints(nodeID, UptimeInterval)
    /\ UNCHANGED verifierVars

Review(nodeIDs) ==
  \E nodeID \in nodeIDs : \E action \in {"clear", "warn", "ban"} :
    /\ ReviewNode(nodeID, action, "reviewed")
    /\ UNCHANGED verifierVars

\* the operations of the Store on one node, registered or not yet
NextStore ==
  \/ Register({ArchiveNode})
  \/ Record({ArchiveNode.ID})
  \/ Suspect({ArchiveNode.ID})
  \/ Award({ArchiveNode.ID})
  \/ Review({ArchiveNode.ID})

SpecStore == Init /\ [][NextStore]_vars

\* a review enters SetNodeCheatStatus with one of the statuses of ReviewNode
ReviewLock(threads, nodeIDs) ==
  \E t \in threads : \E nodeID \in nodeIDs :
    \E status \in {StatusClean, StatusWarning, StatusBanned} :
      /\ SetNodeCheatStatusLock(t, nodeID, status, "reviewed")
      /\ UNCHANGED verifierVars

ReviewAssign(threads) ==
  \E t \in threads : SetNodeCheatStatusAssign(t) /\ UNCHANGED verifierVars

ReviewCount(threads) ==
  \E t \in threads : SetNodeCheatStatusCount(t) /\ UNCHANGED verifierVars

ReviewEvents(threads) ==
  \E t \in threads : SetNodeCheatStatusEvents(t) /\ UNCHANGED verifierVars

ReviewUnlock(threads) ==
  \E t \in threads : SetNodeCheatStatusUnlock(t) /\ UNCHANGED verifierVars

\* reviews of one node, statement by statement, next to the other writers
\* of the Store
NextLock ==
  \/ Register({ArchiveNode})
  \/ Suspect({ArchiveNode.ID})
  \/ ReviewLock({"t1"}, {ArchiveNode.ID})
  \/ ReviewAssign({"t1"})
  \/ ReviewCount({"t1"})
  \/ ReviewEvents({"t1"})
  \/ ReviewUnlock({"t1"})

SpecLock == Init /\ [][NextLock]_vars

\* provers ask for challenges of registered nodes
Request(nodeIDs, cap) ==
  \E nodeID \in nodeIDs \cap DOMAIN nodes : \E pick \in Picks(nodes[nodeID]) :
    \E response \in TrustedResponses(nodes[nodeID], pick) :
      RequestChallenge(nodeID, pick, response, cap)

\* both ways to a challenge, next to the reviews of the node
NextBan ==
  \/ Register({ArchiveNode})
  \/ Review({ArchiveNode.ID})
  \/ Request({ArchiveNode.ID}, MaxDirect)
  \/ Direct({"t1"}, {50}, MaxDirect)

SpecBan == Init /\ [][NextBan]_vars

\* a pass that carries no flag
CleanPass(nodeID) ==
  [ChallengeID |-> 0, NodeID |-> nodeID, Passed |-> TRUE,
   ResponseTimeMs |-> 50, FailureReason |-> "",
   Suspicious |-> FALSE, SuspiciousNote |-> "", Timestamp |-> now]

RecordPass(nodeIDs) ==
  \E nodeID \in nodeIDs :
    /\ Len(historyOf(nodeID)) < MaxPasses
    /\ RecordVerificationResult(CleanPass(nodeID))
    /\ UNCHANGED verifierVars

\* clean passes of a node in every standing
NextTrust ==
  \/ Register({ArchiveNode})
  \/ Suspect({ArchiveNode.ID})
  \/ Review({ArchiveNode.ID})
  \/ RecordPass({ArchiveNode.ID})

SpecTrust == Init /\ [][NextTrust]_vars

\* the result of challenge id, flagged suspicious with a note of its own
NumberedResult(nodeID, id) ==
  [ChallengeID |-> id, NodeID |-> nodeID, Passed |-> TRUE,
   ResponseTimeMs |-> LatencySuspiciousMin + 1, FailureReason |-> "",
   Suspicious |-> TRUE, SuspiciousNote |-> ToString(id), Timestamp |-> now]

\* the results of the challenges of a registered node, one after the other
RecordNext(nodeIDs, cap) ==
  \E nodeID \in nodeIDs \cap DOMAIN nodes :
    /\ nextID <= cap
    /\ RecordVerificationResult(NumberedResult(nodeID, nextID))
    /\ nextID' = nextID + 1
    /\ UNCHANGED <<now, pendingChallenges, pc, frame, cleaned, passedResults, resolved,
                   created, verifierMu>>

\* warnings of the node that did not come from a recorded result
SuspectsSoFar(nodeID) == (nodes[nodeID].WarningCount + 256 - ((nextID - 1) % 256)) % 256

SuspectSome(nodeIDs) ==
  \E nodeID \in nodeIDs \cap DOMAIN nodes :
    /\ SuspectsSoFar(nodeID) < MaxSuspects
    /\ AddSuspiciousEvent(nodeID, "proxy suspected")
    /\ UNCHANGED verifierVars

\* a long run of suspicious results on one node
NextRing ==
  \/ Register({ArchiveNode})
  \/ RecordNext({ArchiveNode.ID}, MaxRun)
  \/ SuspectSome({ArchiveNode.ID})

SpecRing == Init /\ [][NextRing]_vars

\* a run of results longer than the history of a node
NextHistory ==
  \/ Register({ArchiveNode})
  \/ RecordNext({ArchiveNode.ID}, MaxHistoryRun)

SpecHistory == Init /\ [][NextHistory]_vars

\* direct verifications that go well: the reference node answers and the
\* candidate gives the same answer in 50 ms
Probe(threads, candidates, cap) ==
  \E t \in threads : \E node \in candidates : \E pick \in Picks(node) :
    LET data == TrustedData(getAvailableChallengeTypes(node.NodeType)[pick + 1])
    IN  /\ VerifyExposedRPC(t, node, pick, RpcOK(data, 20), RpcOK(data, 50), cap)
        /\ UNCHANGED storeVars

\* direct verifications of a node that fails: it cannot be reached, it
\* answers with a JSON-RPC error object, or it gives a wrong answer
ProbeFailing(threads, candidates, cap) ==
  \E t \in threads : \E node \in candidates : \E pick \in Picks(node) :
    \E expectedResponse \in TrustedResponses(node, pick) :
      \E userResponse \in {RpcFailure(callError(m), 50) : m \in ErrorMessages}
                           \cup {RpcFailure(Unreachable, 5000), RpcOK(WrongAnswer, 50),
                                 RpcOK(expectedResponse.Data, 50)} :
        /\ VerifyExposedRPC(t, node, pick, expectedResponse, userResponse, cap)
        /\ UNCHANGED storeVars

\* every way to a result of the Verifier
NextReason ==
  \/ Advance
  \/ Create({ArchiveNode}, MaxIssued)
  \/ Lookup({"t1"}, {ArchiveNode.ID}, {HashData, WrongAnswer}, {50, LatencyMaxAllowed + 1})
  \/ Return({"t1"})
  \/ ProbeFailing({"t1"}, Nodes, MaxIssued)

SpecReason == Init /\ [][NextReason]_vars

\* results adjudicated at some time up to now: a pass and a failure
TimedResults(nodeID) ==
  {[ChallengeID |-> 0, NodeID |-> nodeID, Passed |-> passed,
    ResponseTimeMs |-> 50, FailureReason |-> IF passed THEN "" ELSE "incorrect answer",
    Suspicious |-> FALSE, SuspiciousNote |-> "", Timestamp |-> at] :
     passed \in BOOLEAN, at \in {at \in {0, ExpiresIn, ExpiresIn + 1} : at <= now}}

RecordTimed(nodeIDs) ==
  \E nodeID \in nodeIDs : \E result \in TimedResults(nodeID) :
    /\ Len(historyOf(nodeID)) < MaxPasses
    /\ RecordVerificationResult(result)
    /\ UNCHANGED verifierVars

\* results of a node and of an identifier that is not registered, recorded
\* while the clock runs
NextStats ==
  \/ Register({ArchiveNode})
  \/ RecordTimed(NodeIDs)
  \/ Advance

SpecStats == Init /\ [][NextStats]_vars

\* CreateChallenge calls of two request handlers, statement by statement
CallCreate(threads, candidates, cap) ==
  \E t \in threads : \E node \in candidates : \E pick \in Picks(node) :
    CreateChallengeCall(t, node, pick, cap)

CallAnswer(threads) ==
  \E t \in threads :
    /\ pc[t] = "calling"
    /\ \E response \in {RpcOK(TrustedData(frame[t].pending.Challenge.ChallengeType), 20),
                         RpcErr(20)} :
         CreateChallengeAnswer(t, response)

CallLock(threads) == \E t \in threads : CreateChallengeLock(t)

CallStore(threads) == \E t \in threads : CreateChallengeStore(t)

CallUnlock(threads) == \E t \in threads : CreateChallengeUnlock(t)

\* the users of the pending map and its lock
NextCalls ==
  \/ CallCreate(Threads, {FastNode}, MaxChallenges)
  \/ CallAnswer(Threads)
  \/ CallLock(Threads)
  \/ CallStore(Threads)
  \/ CallUnlock(Threads)
  \/ Lookup({"t1"}, {FastNode.ID}, {HashData}, {50})
  \/ Return({"t1"})
  \/ Sweep
  \/ Advance

SpecCalls == Init /\ [][NextCalls]_vars

\* Handlers.SubmitChallenge up to the lookup of VerifyResponse: 404 for an
\* unknown node, 401 unless the request is signed by the wallet of the node
\* it names
SubmitChallengeVerify(t, req, signer) ==
  /\ pc[t] = "idle"
  /\ req.NodeID \in DOMAIN nodes
  /\ signer = nodes[req.NodeID].WalletAddress
  /\ VerifyResponseLookup(t, req)

\* Handlers.SubmitChallenge after VerifyResponse returned: the result is
\* recorded and sent
SubmitChallengeRecord(t) ==
  /\ pc[t] = "done"
  /\ frame[t].op = "VerifyResponse"
  /\ RecordVerificationResult(frame[t].result)
  /\ pc' = [pc EXCEPT ![t] = "idle"]
  /\ UNCHANGED <<now, nextID, pendingChallenges, frame, cleaned, passedResults,
                 resolved, created, verifierMu>>

\* the wallets that sign requests
Signers == {node.WalletAddress : node \in Nodes}

\* any registered node submits an answer to any challenge issued so far
Submit(threads, answers) ==
  \E t \in threads : \E id \in KnownIDs : \E n \in NodeIDs : \E a \in answers :
    \E signer \in Signers :
      /\ Len(historyOf(n)) < MaxPasses
      /\ SubmitChallengeVerify(t, [ChallengeID |-> id, NodeID |-> n,
                                   Answer |-> a, ResponseTimeMs |-> 50], signer)

SubmitRecord(threads) ==
  \E t \in threads : SubmitChallengeRecord(t)

\* challenges of the archive node, answered by either registered node
NextSubmit ==
  \/ Register(Nodes)
  \/ Request({ArchiveNode.ID}, MaxIssued)
  \/ Submit({"t1"}, {HashData, WrongAnswer})
  \/ Return({"t1"})
  \/ SubmitRecord({"t1"})
  \/ Advance

SpecSubmit == Init /\ [][NextSubmit]_vars

\* the operations of the Store on one node, next to its requests for a
\* challenge
NextRevive ==
  \/ Register({ArchiveNode})
  \/ RecordPass({ArchiveNode.ID})
  \/ Suspect({ArchiveNode.ID})
  \/ Award({ArchiveNode.ID})
  \/ Review({ArchiveNode.ID})
  \/ Request({ArchiveNode.ID}, MaxIssued)

SpecRevive == Init /\ [][NextRevive]_vars

\* a full node and a node of an unknown type
AwardNodes == {node \in TierNodes : node.NodeType \in {BscFull, UnknownTier}}

\* an identifier no node is registered with
NobodyID == "nobody"

\* the minutes a caller reports: none, or one interval
MinutesOnline == {0, UptimeInterval}

\* uptime is reported for registered nodes and for an unknown identifier
AwardMinutes(nodeIDs) ==
  \E nodeID \in nodeIDs : \E minutesOnline \in MinutesOnline :
    /\ nodeID \in DOMAIN nodes =>
         nodes[nodeID].TotalPoints < RegistrationBonus(nodes[nodeID].NodeType) + MaxAwards
    /\ AwardUptimePoints(nodeID, minutesOnline)
    /\ UNCHANGED verifierVars

\* uptime of nodes in every standing
NextAward ==
  \/ Register(AwardNodes)
  \/ Suspect({BscFull})
  \/ Review({node.ID : node \in AwardNodes})
  \/ AwardMinutes({node.ID : node \in AwardNodes} \cup {NobodyID})

SpecAward == Init /\ [][NextAward]_vars

\* nodes of every tier register, in any order, for two wallets
NextRegister == Register(TierNodes)

SpecRegister == Init /\ [][NextRegister]_vars

\* index of the state-balance kind in the list of the archive tier
BalancePick ==
  (CHOOSE i \in 1..Len(getAvailableChallengeTypes(BscArchive)) :
     getAvailableChallengeTypes(BscArchive)[i] = StateBalance) - 1

\* a state-balance challenge whose reference answer is any of the texts
CreateBalance(cap) ==
  \E text \in BalanceTexts : CreateChallenge(ArchiveNode, BalancePick, RpcOK(text, 20), cap)

\* answers to state-balance challenges in every formatting
NextCompare ==
  \/ CreateBalance(MaxIssued)
  \/ Lookup({"t1"}, {ArchiveNode.ID}, BalanceTexts, {50})
  \/ Return({"t1"})

SpecCompare == Init /\ [][NextCompare]_vars

\* challenges generated for nodes of every tier, on both paths
NextGen ==
  \/ Create(TierNodes, MaxGen)
  \/ Probe({"t1"}, TierNodes, MaxGen)
  \/ Advance

SpecGen == Init /\ [][NextGen]_vars

\* the clock runs on: by the steps of Advance, or straight to its last value
AdvanceLive == \E d \in TickSteps \cup {MaxTime - now} : d > 0 /\ Tick(d)

\* challenges are handed out while the clock can still pass their expiry
CreateLive == now + ExpiresIn < MaxTime /\ Create({FastNode}, MaxChallenges)

NextLive ==
  \/ AdvanceLive
  \/ CreateLive
  \/ Lookup({"t1"}, {FastNode.ID}, {HashData}, {50})
  \/ Return({"t1"})
  \/ Sweep

\* the clock keeps advancing and the ticker keeps calling the sweep
SpecLive == Init /\ [][NextLive]_vars /\ WF_vars(AdvanceLive) /\ WF_vars(Sweep)

\* ------------------------------------------------------------------------
\* Properties of VerifyResponse
\* ------------------------------------------------------------------------

NotFoundReason == "challenge not found or expired"

\* thread t has returned from a VerifyResponse call
Returned(t) == pc[t] = "done" /\ frame[t].op = "VerifyResponse"

\* the call of t has looked the record up and has not returned yet
InFlight(t) == pc[t] = "looked" /\ frame[t].op = "VerifyResponse"

\* the lookup of t found the pending record
Found(t) == frame[t].exists

\* the clock the call of t read was past the expiry of the record it found
PastExpiry(t) == frame[t].result.Timestamp > frame[t].pending.Challenge.ExpiresAt

\* the comparator accepts the answer t submitted for the record it found
Accepted(t) ==
  compareAnswers(frame[t].response.Answer, frame[t].pending.ExpectedAnswer,
                 frame[t].pending.Challenge.ChallengeType)

Latency(t) == frame[t].response.ResponseTimeMs

\* C1: of two VerifyResponse calls running concurrently for the same pending,
\* unexpired challenge ID, only one observes the pending record (the other
\* one observes "not found").
C1_SingleAdjudication ==
  \A t1 \in Threads : \A t2 \in Threads \ {t1} :
    ( /\ InFlight(t1) /\ InFlight(t2)
      /\ frame[t1].response.ChallengeID = frame[t2].response.ChallengeID
      /\ Found(t1)
      /\ now <= frame[t1].pending.Challenge.ExpiresAt )
    => ~Found(t2)

\* C2: each challenge ID yields at most one result with Passed = TRUE.
C2_AtMostOnePassed ==
  \A id \in 0..(nextID - 1) : CopiesIn(id, passedResults) <= 1

\* every ID a call has resolved is out of the pending map
C3_ResolvedIsGone == \A id \in resolved : id \notin DOMAIN pendingChallenges

\* a lookup of an ID that was resolved before misses
C3_LaterLookupMisses ==
  \A t \in Threads :
    ( /\ pc[t] \in {"idle", "done"} /\ pc'[t] = "looked"
      /\ frame'[t].response.ChallengeID \in resolved )
    => ~frame'[t].exists

\* a call whose lookup missed returns the not-found failure
C3_MissIsNotFound ==
  \A t \in Threads :
    (Returned(t) /\ ~Found(t))
    => (~frame[t].result.Passed /\ frame[t].result.FailureReason = NotFoundReason)

\* C3: once a call for a challenge ID has returned with another outcome than
\* not-found, the record is out of the pending map, every later lookup of
\* that ID misses, and a call whose lookup missed returns passed = FALSE with
\* reason "challenge not found or expired".
C3_NoReplay ==
  /\ []C3_ResolvedIsGone
  /\ [][C3_LaterLookupMisses]_vars
  /\ []C3_MissIsNotFound

\* a second call, made by a handler on its own after the ID was resolved,
\* has returned not-found
C3_Witness ==
  /\ pc["t2"] = "idle"
  /\ Returned("t1")
  /\ frame["t1"].response.ChallengeID \in resolved
  /\ ~Found("t1")
  /\ frame["t1"].result.FailureReason = NotFoundReason

\* C4: the checks are applied in the order not-found, expiry, answer,
\* latency ceiling, and the first one that matches decides the reason.
C4_CheckOrder ==
  \A t \in Threads : Returned(t) =>
    /\ ~Found(t) => frame[t].result.FailureReason = NotFoundReason
    /\ (Found(t) /\ PastExpiry(t)) => frame[t].result.FailureReason = "challenge expired"
    /\ (Found(t) /\ ~PastExpiry(t) /\ ~Accepted(t))
         => frame[t].result.FailureReason = "incorrect answer"
    /\ (Found(t) /\ ~PastExpiry(t) /\ Accepted(t) /\ Latency(t) > LatencyMaxAllowed)
         => frame[t].result.FailureReason = "response too slow"

\* a wrong answer that is also over the ceiling, on an unexpired challenge
C4_Witness ==
  \E t \in Threads :
    /\ Returned(t) /\ Found(t) /\ ~PastExpiry(t) /\ ~Accepted(t)
    /\ Latency(t) > LatencyMaxAllowed
    /\ frame[t].result.FailureReason = "incorrect answer"

\* C5: an accepted answer with a response time of at most 150 ms, adjudicated
\* not later than ExpiresAt, passes without the suspicious flag and without a
\* failure reason.
C5_FastCorrectPasses ==
  \A t \in Threads :
    (Returned(t) /\ Found(t) /\ ~PastExpiry(t) /\ Accepted(t)
       /\ Latency(t) <= LatencySuspiciousMin)
    => ( /\ frame[t].result.Passed
         /\ ~frame[t].result.Suspicious
         /\ frame[t].result.FailureReason = "" )

\* the boundary case: exactly 150 ms, adjudicated at the expiry instant
C5_Witness ==
  \E t \in Threads :
    /\ Returned(t) /\ Found(t) /\ Accepted(t)
    /\ Latency(t) = LatencySuspiciousMin
    /\ frame[t].result.Timestamp = frame[t].pending.Challenge.ExpiresAt
    /\ frame[t].result.Passed

\* C6: an accepted answer with a response time strictly between 150 and 5000
\* ms on an unexpired challenge passes with the suspicious flag and a note.
C6_SuspiciousBand ==
  \A t \in Threads :
    (Returned(t) /\ Found(t) /\ ~PastExpiry(t) /\ Accepted(t)
       /\ Latency(t) > LatencySuspiciousMin /\ Latency(t) < LatencyMaxAllowed)
    => ( /\ frame[t].result.Passed
         /\ frame[t].result.Suspicious
         /\ frame[t].result.SuspiciousNote # "" )

\* C7 as stated: a response time of 5000 ms or more never passes.
C7_CeilingInclusive ==
  \A t \in Threads :
    (Returned(t) /\ Latency(t) >= LatencyMaxAllowed) => ~frame[t].result.Passed

\* C7 amended: a response time above 5000 ms never passes, whatever the answer.
C7_AboveCeilingFails ==
  \A t \in Threads :
    (Returned(t) /\ Latency(t) > LatencyMaxAllowed) => ~frame[t].result.Passed

\* an accepted answer on an unexpired challenge, failed for its latency alone
C7_Witness ==
  \E t \in Threads :
    /\ Returned(t) /\ Found(t) /\ ~PastExpiry(t) /\ Accepted(t)
    /\ Latency(t) > LatencyMaxAllowed
    /\ ~frame[t].result.Passed

\* C8: an accepted answer over the ceiling on an unexpired challenge fails
\* with reason "response too slow" and with the suspicious flag set.
C8_TooSlowIsSuspicious ==
  \A t \in Threads :
    (Returned(t) /\ Found(t) /\ ~PastExpiry(t) /\ Accepted(t)
       /\ Latency(t) > LatencyMaxAllowed)
    => ( /\ ~frame[t].result.Passed
         /\ frame[t].result.FailureReason = "response too slow"
         /\ frame[t].result.Suspicious )

C10_ExpiredFails ==
  \A t \in Threads :
    (Returned(t) /\ Found(t) /\ PastExpiry(t))
    => ( /\ ~frame[t].result.Passed
         /\ frame[t].result.FailureReason = "challenge expired"
         /\ frame[t].response.ChallengeID \notin DOMAIN pendingChallenges )

\* an accepted, fast answer, one millisecond after the expiry instant
C10_Witness ==
  \E t \in Threads :
    /\ Returned(t) /\ Found(t) /\ Accepted(t)
    /\ Latency(t) <= LatencySuspiciousMin
    /\ frame[t].result.Timestamp = frame[t].pending.Challenge.ExpiresAt + 1
    /\ frame[t].result.FailureReason = "challenge expired"

\* ------------------------------------------------------------------------
\* Expired and unknown challenges
\* ------------------------------------------------------------------------

\* the identifier the call of t submitted was never handed out: the
\* generator starts at 1
NeverIssued(t) == frame[t].response.ChallengeID = 0

\* C11: a caller of VerifyResponse gets the same passed flag and the same
\* failure reason for an expired challenge as for an identifier that was
\* never issued
C11_ExpiredLooksUnknown ==
  \A t \in Threads : \A u \in Threads :
    (Returned(t) /\ Found(t) /\ PastExpiry(t) /\ Returned(u) /\ NeverIssued(u))
      => /\ frame[t].result.Passed = frame[u].result.Passed
         /\ frame[t].result.FailureReason = frame[u].result.FailureReason

\* ------------------------------------------------------------------------
\* Properties of CreateChallenge
\* ------------------------------------------------------------------------

\* a step of CreateChallenge: the generator hands out an identifier and no
\* handler frame changes
CreateStep == nextID' # nextID /\ frame' = frame

\* C12: CreateChallenge adds exactly one pending entry, keyed by the
\* returned challenge's ID and holding the reference answer, if and only if
\* the reference query succeeds; when the reference query fails it returns
\* an error and no challenge and leaves the pending map unchanged
C12_CreateOutcome ==
  [][CreateStep =>
       /\ created'.success <=> created'.err = ""
       /\ created'.success =>
            /\ created'.challenge = nextID
            /\ created'.challenge \notin DOMAIN pendingChallenges
            /\ DOMAIN pendingChallenges' =
                 (DOMAIN pendingChallenges) \cup {created'.challenge}
            /\ \A id \in DOMAIN pendingChallenges :
                 pendingChallenges'[id] = pendingChallenges[id]
            /\ LET p == pendingChallenges'[created'.challenge]
               IN  /\ p.Challenge.ID = created'.challenge
                   /\ p.ExpectedAnswer = TrustedData(p.Challenge.ChallengeType)
       /\ ~created'.success =>
            /\ created'.challenge = 0
            /\ pendingChallenges' = pendingChallenges]_vars

\* a second challenge was stored next to one still pending
C12_Witness ==
  /\ created.success
  /\ created.challenge \in DOMAIN pendingChallenges
  /\ Cardinality(DOMAIN pendingChallenges) = 2

\* ------------------------------------------------------------------------
\* Properties of VerifyExposedRPC
\* ------------------------------------------------------------------------

\* thread t has returned from a VerifyExposedRPC call
ExposedReturned(t) == pc[t] = "done" /\ frame[t].op = "VerifyExposedRPC"

\* a step in which thread t runs VerifyExposedRPC
ExposedStep(t) == frame'[t] # frame[t] /\ frame'[t].op = "VerifyExposedRPC"

\* the call of t generated a challenge and the reference node failed on it
OracleFailed(t) ==
  /\ ExposedReturned(t)
  /\ frame[t].pending.Challenge.ID # 0
  /\ frame[t].pending.ExpectedAnswer = <<>>

\* C13: when the reference gateway fails during VerifyExposedRPC no failed
\* VerificationResult is returned or recorded for the node and its
\* TotalChallengesFailed counter is unchanged
C13_OracleFailureNotCounted ==
  [][\A t \in Threads :
       (ExposedStep(t) /\ OracleFailed(t)') =>
          /\ ~(frame'[t].result.Passed = FALSE /\ frame'[t].result.FailureReason # "")
          /\ verificationHistory' = verificationHistory
          /\ \A id \in DOMAIN nodes :
               nodes'[id].TotalChallengesFailed = nodes[id].TotalChallengesFailed]_vars

\* the candidate's answer in the call of t matches the reference answer
ExposedCorrect(t) ==
  /\ ExposedReturned(t)
  /\ frame[t].pending.Challenge.ID # 0
  /\ frame[t].pending.ExpectedAnswer # <<>>
  /\ compareAnswers(frame[t].response.Answer, frame[t].pending.ExpectedAnswer,
                    frame[t].pending.Challenge.ChallengeType)

\* C14: VerifyExposedRPC applies the latency policy of VerifyResponse to the
\* measured latency: a correct answer above 150 ms and under the ceiling
\* passes with suspicious=true, a correct answer above 5000 ms fails with
\* "response too slow"
C14_ExposedLatencyPolicy ==
  \A t \in Threads :
    ExposedCorrect(t) =>
      /\ (Latency(t) > LatencySuspiciousMin /\ Latency(t) < LatencyMaxAllowed) =>
            (frame[t].result.Passed /\ frame[t].result.Suspicious)
      /\ Latency(t) > LatencyMaxAllowed =>
            (~frame[t].result.Passed /\ frame[t].result.FailureReason = "response too slow")

SweepStep == UNCHANGED <<now, nextID, pc, frame, created, nodes, verificationHistory>>

\* C16: CleanupExpiredChallenges removes exactly the pending entries whose
\* ExpiresAt is earlier than the current time, returns how many it removed
\* and leaves every other entry as it was
C16_SweepExact ==
  [][SweepStep =>
       LET expired == {id \in DOMAIN pendingChallenges :
                         pendingChallenges[id].Challenge.ExpiresAt < now}
       IN  /\ DOMAIN pendingChallenges' = (DOMAIN pendingChallenges) \ expired
           /\ \A id \in DOMAIN pendingChallenges' :
                pendingChallenges'[id] = pendingChallenges[id]
           /\ cleaned' = Cardinality(expired)]_vars

\* a sweep removed an entry and an unexpired entry is in the map
C16_Witness ==
  /\ cleaned = 1
  /\ DOMAIN pendingChallenges # {}
  /\ \A id \in DOMAIN pendingChallenges : pendingChallenges[id].Challenge.ExpiresAt >= now

\* C17: with the clock advancing and the sweep running, every challenge
\* CreateChallenge stored is eventually gone from the pending map, with or
\* without a response to it
C17_EventuallyRemoved ==
  \A id \in 1..MaxChallenges :
    (id \in DOMAIN pendingChallenges) ~> (id \notin DOMAIN pendingChallenges)

\* the sweep emptied the map and no response was ever submitted
C17_Witness ==
  /\ created.success
  /\ cleaned >= 1
  /\ pendingChallenges = <<>>
  /\ pc["t1"] = "idle"

\* ------------------------------------------------------------------------
\* Properties of the trust state of a node
\* ------------------------------------------------------------------------

\* a step in which RecordVerificationResult stores a suspicious result of
\* the registered node id
RecordedSuspicious(id) ==
  /\ id \in DOMAIN nodes
  /\ id \in DOMAIN verificationHistory'
  /\ Len(verificationHistory'[id]) = Len(historyOf(id)) + 1
  /\ verificationHistory'[id][Len(verificationHistory'[id])].Suspicious

\* C18: a suspicious result recorded through RecordVerificationResult
\* increments the warning count by 1 and then sets the status to Flagged if
\* the new count is at least 5, otherwise to Warning if it is at least 2,
\* otherwise leaves the status as it was, Clean for a node that was Clean
C18_Escalation ==
  [][\A id \in NodeIDs :
       RecordedSuspicious(id) =>
         LET count == nodes'[id].WarningCount
         IN  /\ count = nodes[id].WarningCount + 1
             /\ nodes'[id].CheatStatus =
                  IF count >= 5 THEN StatusFlagged
                  ELSE IF count >= 2 THEN StatusWarning
                  ELSE nodes[id].CheatStatus]_vars

\* five suspicious results took a registered node to Flagged
C18_Witness ==
  \E id \in DOMAIN nodes :
    /\ nodes[id].CheatStatus = StatusFlagged
    /\ nodes[id].WarningCount = 5
    /\ nodes[id].TotalChallengesPassed = 5
    /\ nodes[id].CheatReason = "Multiple suspicious activities - needs manual review"
    /\ Len(nodes[id].SuspiciousEvents) = 5
    /\ \A i \in 1..5 :
         nodes[id].SuspiciousEvents[i].text = "Suspicious verification detected"

\* a step in which an administrative clear is applied to the node id
Cleared(id) ==
  /\ nodes'[id].CheatStatus = StatusClean
  /\ nodes'[id].WarningCount = 0
  /\ nodes'[id].SuspiciousEvents = <<>>

\* a step of RecordVerificationResult, AddSuspiciousEvent or
\* AwardUptimePoints on the node id: a result is stored, a warning is
\* counted or uptime is credited
StoreCall(id) ==
  \/ verificationHistory' # verificationHistory
  \/ nodes'[id].WarningCount = nodes[id].WarningCount + 1
  \/ nodes'[id].TotalUptimeMinutes # nodes[id].TotalUptimeMinutes

\* C19: a Banned node stays Banned through every RecordVerificationResult,
\* AddSuspiciousEvent and AwardUptimePoints call; only an administrative
\* clear changes its status
C19_BannedStays ==
  [][\A id \in DOMAIN nodes :
       (nodes[id].CheatStatus = StatusBanned /\ StoreCall(id)) =>
         nodes'[id].CheatStatus = StatusBanned]_vars

\* Clean < Warning < Flagged < Banned
StatusRank(status) ==
  CASE status = StatusClean   -> 0
    [] status = StatusWarning -> 1
    [] status = StatusFlagged -> 2
    [] status = StatusBanned  -> 3

\* C20: no store operation other than an administrative clear moves the
\* cheat status of a node to a lower value
C20_StatusMonotone ==
  [][\A id \in DOMAIN nodes :
       (StatusRank(nodes'[id].CheatStatus) >= StatusRank(nodes[id].CheatStatus)
        \/ Cleared(id))]_vars

\* C21: the warning count of a node never decreases except through an
\* administrative clear, however many suspicious events are recorded
C21_WarningCountMonotone ==
  [][\A id \in DOMAIN nodes :
       (nodes'[id].WarningCount >= nodes[id].WarningCount \/ Cleared(id))]_vars

\* ------------------------------------------------------------------------
\* The administrative clear
\* ------------------------------------------------------------------------

\* goroutine t is inside a SetNodeCheatStatus call
InReview(t) == call[t] # NoCall

\* a step that writes the Store and is not a statement of a
\* SetNodeCheatStatus call in progress
OtherStoreCall == call' = call /\ <<nodes, verificationHistory>>' # <<nodes, verificationHistory>>

\* the SetNodeCheatStatus call of t to Clean returns true
ClearReturns(t) == call[t].at = "reset" /\ call[t].status = StatusClean /\ call'[t] = NoCall

\* no other store operation runs while a SetNodeCheatStatus call is between
\* its first and its last statement
C22_NoneInside == [][OtherStoreCall => \A t \in Threads : ~InReview(t)]_vars

\* when the clear returns and lets the lock go the node is wholly cleared
C22_ClearedOnReturn ==
  [][\A t \in Threads :
       ClearReturns(t) =>
         /\ nodes'[call[t].nodeID].WarningCount = 0
         /\ nodes'[call[t].nodeID].SuspiciousEvents = <<>>
         /\ nodes'[call[t].nodeID].CheatStatus = StatusClean]_vars

\* whenever the store lock is free, no SetNodeCheatStatus call is half done
C22_FreeMeansDone == [](mu = "" => \A t \in Threads : ~InReview(t))

\* C22: an administrative clear of a node in any state sets the warning
\* count to 0, empties the ring and sets the status to Clean under the
\* store lock, so that no other store operation runs on, or sees, a node
\* whose clear is half done
C22_AtomicClear ==
  /\ C22_NoneInside
  /\ C22_ClearedOnReturn
  /\ C22_FreeMeansDone

\* a clear of a Banned node with five warnings is half done: the status is
\* Clean and the count 0 while the ring still holds its events
C22_Witness ==
  \E t \in Threads :
    /\ call[t].at = "counted"
    /\ call[t].status = StatusClean
    /\ call[t].nodeID \in DOMAIN nodes
    /\ nodes[call[t].nodeID].CheatStatus = StatusClean
    /\ nodes[call[t].nodeID].WarningCount = 0
    /\ Len(nodes[call[t].nodeID].SuspiciousEvents) = FlaggedAt
    /\ ~nodes[call[t].nodeID].IsActive

\* ------------------------------------------------------------------------
\* Uptime points
\* ------------------------------------------------------------------------

\* the node as an AwardUptimePoints call made now would leave it
Awarded(id) == awardUptime(nodes[id], UptimeInterval, now)

\* a call for a Flagged or Banned node changes neither total
C23_FlaggedUnpaid ==
  \A id \in DOMAIN nodes :
    nodes[id].CheatStatus \in {StatusFlagged, StatusBanned} =>
      /\ Awarded(id).TotalPoints = nodes[id].TotalPoints
      /\ Awarded(id).TotalUptimeMinutes = nodes[id].TotalUptimeMinutes

\* a call for an active Clean or Warning node raises both totals
C23_ActivePaid ==
  \A id \in DOMAIN nodes :
    (nodes[id].IsActive /\ nodes[id].CheatStatus \in {StatusClean, StatusWarning}) =>
      /\ Awarded(id).TotalPoints > nodes[id].TotalPoints
      /\ Awarded(id).TotalUptimeMinutes > nodes[id].TotalUptimeMinutes

\* the totals of a registered node change in no step but one on an active
\* node that is Clean or Warning, and then both grow
C23_OnlyPaidSteps ==
  \A id \in DOMAIN nodes :
    (\/ nodes'[id].TotalPoints # nodes[id].TotalPoints
     \/ nodes'[id].TotalUptimeMinutes # nodes[id].TotalUptimeMinutes) =>
      /\ nodes[id].IsActive
      /\ nodes[id].CheatStatus \in {StatusClean, StatusWarning}
      /\ nodes'[id].TotalPoints > nodes[id].TotalPoints
      /\ nodes'[id].TotalUptimeMinutes > nodes[id].TotalUptimeMinutes

IsBanned(nodeID) == nodeID \in DOMAIN nodes /\ nodes[nodeID].CheatStatus = StatusBanned

\* CreateChallenge returns a challenge in this step, and it is for a Banned node
CreatedForBanned ==
  /\ CreateStep
  /\ created'.success
  /\ IsBanned(pendingChallenges'[created'.challenge].Challenge.NodeID)

\* VerifyExposedRPC generates a challenge for a Banned node in this step
GeneratedForBanned(t) ==
  /\ ExposedStep(t)
  /\ frame'[t].pending.Challenge.ID # 0
  /\ IsBanned(frame'[t].pending.Challenge.NodeID)

\* no request of a prover gets a challenge for a Banned node
C24_ProverPathRefuses == [][~CreatedForBanned]_vars

\* C24: no challenge is issued for a Banned node, neither to a prover
\* through RequestChallenge and CreateChallenge nor on the exposed path
\* through VerifyNode and VerifyExposedRPC
C24_NoChallengeForBanned ==
  [][~CreatedForBanned /\ \A t \in Threads : ~GeneratedForBanned(t)]_vars

\* ------------------------------------------------------------------------
\* Results without a flag
\* ------------------------------------------------------------------------

\* a step in which RecordVerificationResult stores a passed result of the
\* registered node id that carries no flag
RecordedCleanPass(id) ==
  /\ id \in DOMAIN nodes
  /\ id \in DOMAIN verificationHistory'
  /\ Len(verificationHistory'[id]) = Len(historyOf(id)) + 1
  /\ verificationHistory'[id][Len(verificationHistory'[id])].Passed
  /\ ~verificationHistory'[id][Len(verificationHistory'[id])].Suspicious

\* C25: recording a result with passed = TRUE and suspicious = FALSE leaves
\* the cheat status, the warning count, the cheat reason and the ring of
\* suspicious events of the node unchanged
C25_CleanPassKeepsStanding ==
  [][\A id \in NodeIDs :
       RecordedCleanPass(id) =>
         /\ nodes'[id].CheatStatus = nodes[id].CheatStatus
         /\ nodes'[id].WarningCount = nodes[id].WarningCount
         /\ nodes'[id].CheatReason = nodes[id].CheatReason
         /\ nodes'[id].SuspiciousEvents = nodes[id].SuspiciousEvents]_vars

\* clean passes are on record for a node that has warnings, a reason and
\* events and is not Clean
C25_Witness ==
  \E id \in DOMAIN nodes :
    /\ nodes[id].CheatStatus = StatusWarning
    /\ nodes[id].WarningCount = 3
    /\ nodes[id].CheatReason = "proxy suspected"
    /\ Len(nodes[id].SuspiciousEvents) = 3
    /\ nodes[id].TotalChallengesPassed = MaxPasses
    /\ \A i \in 1..Len(historyOf(id)) : ~historyOf(id)[i].Suspicious

\* ------------------------------------------------------------------------
\* Results recorded one after the other
\* ------------------------------------------------------------------------

\* a step in which RecordVerificationResult stores a result of the
\* registered node id
Recorded(id) ==
  /\ id \in DOMAIN nodes
  /\ id \in DOMAIN verificationHistory'
  /\ Len(verificationHistory'[id]) = Len(historyOf(id)) + 1

\* the suspicious results in the history of the node
SuspiciousResults(id) ==
  Cardinality({i \in 1..Len(historyOf(id)) : historyOf(id)[i].Suspicious})

\* every call under the store lock counts its result once, and a
\* suspicious one moves the 8-bit warning count on by one
C26_EachResultCounted ==
  [][\A id \in NodeIDs :
       Recorded(id) =>
         LET result == verificationHistory'[id][Len(verificationHistory'[id])]
         IN  /\ nodes'[id].TotalChallengesPassed + nodes'[id].TotalChallengesFailed
                  = nodes[id].TotalChallengesPassed + nodes[id].TotalChallengesFailed + 1
             /\ nodes'[id].WarningCount =
                  IF result.Suspicious THEN (nodes[id].WarningCount + 1) % 256
                  ELSE nodes[id].WarningCount]_vars

\* C26: no update of RecordVerificationResult is lost: while no clear has
\* been applied and the history is below its cap, TotalChallengesPassed +
\* TotalChallengesFailed of a node equals the number of results recorded
\* for it, and its warning count is no less than the number of suspicious
\* results recorded for it (equal to it where no AddSuspiciousEvent call
\* added a warning)
C26_NothingLost ==
  \A id \in DOMAIN nodes :
    /\ nodes[id].TotalChallengesPassed + nodes[id].TotalChallengesFailed
         = Len(historyOf(id))
    /\ nodes[id].WarningCount >= SuspiciousResults(id)

\* ------------------------------------------------------------------------
\* The ring of suspicious events
\* ------------------------------------------------------------------------

\* the ring of the node
Ring(id) == nodes[id].SuspiciousEvents

\* a suspicious event of the node is tracked in this step: its warning
\* count moves and the step is no clear
RingAppended(id) == nodes'[id].WarningCount # nodes[id].WarningCount /\ ~Cleared(id)

\* the ring never holds more than 20 events
C27_RingBounded == \A id \in DOMAIN nodes : Len(Ring(id)) <= SuspiciousEventsCap

\* an append puts the event last, behind the events the ring held, without
\* the oldest one if the ring was full
C27_RingAppend ==
  \A id \in DOMAIN nodes :
    RingAppended(id) =>
      LET after == nodes'[id].SuspiciousEvents
          kept  == IF Len(Ring(id)) < SuspiciousEventsCap THEN Ring(id) ELSE Tail(Ring(id))
      IN  /\ Len(after) = Len(kept) + 1
          /\ SubSeq(after, 1, Len(kept)) = kept

\* C27: the ring of suspicious events of a node holds at most 20 entries in
\* every reachable state, and an append to a full ring drops the oldest
\* entry, so that the ring holds the most recent events in arrival order
C27_RingKeepsLatest ==
  /\ []C27_RingBounded
  /\ [][C27_RingAppend]_vars

\* 21 results were recorded: the ring is full, the event of the first
\* result is gone and the events of results 2 to 21 are there in order
C27_Witness ==
  \E id \in DOMAIN nodes :
    /\ Len(Ring(id)) = SuspiciousEventsCap
    /\ \A i \in 1..SuspiciousEventsCap : Ring(id)[i].text = ToString(i + 1)

\* ------------------------------------------------------------------------
\* The verification history
\* ------------------------------------------------------------------------

\* a result of the node id is appended to its history in this step: the
\* generator of the run moves on
HistoryAppended(id) == nextID' # nextID /\ id \in DOMAIN verificationHistory'

\* no history holds more than 1000 results
C28_HistoryBounded ==
  \A id \in DOMAIN verificationHistory : Len(verificationHistory[id]) <= HistoryCap

\* an append puts the result last, behind the results the history held,
\* without the oldest one if the history was full
C28_HistoryAppend ==
  \A id \in NodeIDs :
    HistoryAppended(id) =>
      LET after == verificationHistory'[id]
          kept  == IF Len(historyOf(id)) < HistoryCap THEN historyOf(id)
                   ELSE Tail(historyOf(id))
      IN  /\ Len(after) = Len(kept) + 1
          /\ SubSeq(after, 1, Len(kept)) = kept
          /\ after[Len(after)].ChallengeID = nextID

\* C28: the verification history of each node holds at most 1000 results in
\* every reachable state, and an append to a full history drops the oldest
\* result and keeps the others in order
C28_HistoryKeepsLatest ==
  /\ []C28_HistoryBounded
  /\ [][C28_HistoryAppend]_vars

\* 1001 results were recorded: the history is full, the first result is
\* gone and the results 2 to 1001 are there in order
C28_Witness ==
  \E id \in DOMAIN verificationHistory :
    /\ Len(verificationHistory[id]) = HistoryCap
    /\ \A i \in 1..HistoryCap : verificationHistory[id][i].ChallengeID = i + 1

\* ------------------------------------------------------------------------
\* Generated challenges
\* ------------------------------------------------------------------------

\* the kinds a challenge for a node of the tier may have
KindsOfTier(nodeType) ==
  IF nodeType = BscArchive THEN {BlockHash, BlockData, StateBalance, SyncStatus}
  ELSE IF nodeType \in {BscFull, OpbnbFull} THEN {BlockHash, BlockData, SyncStatus}
  ELSE {BlockHash, SyncStatus}

\* the tier of the node a challenge names
TierOf(nodeID) == (CHOOSE node \in TierNodes : node.ID = nodeID).NodeType

\* the challenge VerifyExposedRPC generated in the call of t, if it did
Generated(t) == ExposedReturned(t) /\ frame[t].pending.Challenge.ID # 0

\* every challenge in the pending map and every challenge generated for a
\* direct verification has a kind of its node's tier
C29_KindOfItsTier ==
  /\ \A id \in DOMAIN pendingChallenges :
       pendingChallenges[id].Challenge.ChallengeType
         \in KindsOfTier(TierOf(pendingChallenges[id].Challenge.NodeID))
  /\ \A t \in Threads :
       Generated(t) =>
         frame[t].pending.Challenge.ChallengeType
           \in KindsOfTier(TierOf(frame[t].pending.Challenge.NodeID))

\* the generator has a challenge for every tier, whatever it draws
C29_NoTierRejected ==
  \A node \in TierNodes :
    /\ Picks(node) # {}
    /\ \A pick \in Picks(node) :
         GenerateChallenge(node.ID, node.NodeType, nextID, pick, now).ChallengeType
           \in KindsOfTier(node.NodeType)

\* C29: GenerateChallenge picks the kind of a challenge only from the set of
\* the node's tier: block-hash, block-data, state-balance and sync-status
\* for bsc-archive; block-hash, block-data and sync-status for bsc-full and
\* opbnb-full; block-hash and sync-status for the fast tiers and for any
\* tier it does not recognize; no tier is rejected
C29_KindsByTier == C29_KindOfItsTier /\ C29_NoTierRejected

\* a state-balance challenge is pending for the archive node and a
\* sync-status challenge for the node of the unknown tier
C29_Witness ==
  \E a \in DOMAIN pendingChallenges : \E u \in DOMAIN pendingChallenges :
    /\ pendingChallenges[a].Challenge.NodeID = BscArchive
    /\ pendingChallenges[a].Challenge.ChallengeType = StateBalance
    /\ pendingChallenges[u].Challenge.NodeID = UnknownTier
    /\ pendingChallenges[u].Challenge.ChallengeType = SyncStatus

\* the challenge lives for 60000 milliseconds
SixtySeconds(challenge) == challenge.ExpiresAt - challenge.CreatedAt = 60000

\* every challenge in the pending map and every generated one expires 60000
\* milliseconds after its creation
C30_Lifetime ==
  /\ \A id \in DOMAIN pendingChallenges : SixtySeconds(pendingChallenges[id].Challenge)
  /\ \A t \in Threads : Generated(t) => SixtySeconds(frame[t].pending.Challenge)

\* the challenge CreateChallenge returns is created now for the node of the
\* call, and so is the one VerifyExposedRPC generates
C30_ForItsNode ==
  /\ (CreateStep /\ created'.success) =>
       LET challenge == pendingChallenges'[created'.challenge].Challenge
       IN  /\ challenge.NodeID = created'.node
           /\ challenge.CreatedAt = now
           /\ SixtySeconds(challenge)
  /\ \A t \in Threads :
       (ExposedStep(t) /\ Generated(t)') =>
         /\ frame'[t].pending.Challenge.NodeID = frame'[t].response.NodeID
         /\ frame'[t].pending.Challenge.CreatedAt = now
         /\ SixtySeconds(frame'[t].pending.Challenge)

\* C30: every challenge returned by GenerateChallenge or CreateChallenge has
\* ExpiresAt - CreatedAt = 60000 and carries the ID of the node it was
\* generated for
C30_LifetimeAndNode ==
  /\ []C30_Lifetime
  /\ [][C30_ForItsNode]_vars

\* after the clock moved, one challenge was returned by CreateChallenge for
\* a full node and one was generated for the direct check of a fast node
C30_Witness ==
  \E t \in Threads :
    /\ Generated(t)
    /\ frame[t].pending.Challenge.NodeID = OpbnbFast
    /\ frame[t].pending.Challenge.CreatedAt > 0
    /\ created.success
    /\ created.node = BscFull
    /\ created.challenge \in DOMAIN pendingChallenges
    /\ pendingChallenges[created.challenge].Challenge.ExpiresAt > ExpiresIn

\* ------------------------------------------------------------------------
\* The comparator of balances
\* ------------------------------------------------------------------------

\* the texts that are a hexadecimal integer once trimmed, lower-cased and
\* without the 0x prefix
BalanceNumbers ==
  {BalanceTen, BalanceTenUpper, BalanceTenPadded, BalanceTenBare, BalanceTenSpaced,
   BalanceEleven}

\* the integer such a text stands for
BalanceValue(text) == IF text = BalanceEleven THEN 11 ELSE 10

\* what the comparator has to say of two balances: numeric equality where
\* both are numbers, equality of the trimmed, lower-cased texts otherwise
BalancesMatch(a, b) ==
  IF a \in BalanceNumbers /\ b \in BalanceNumbers THEN BalanceValue(a) = BalanceValue(b)
  ELSE a = b \/ {a, b} = {BalanceNoNumber, BalanceNoNumberUpper}

\* the call of t adjudicated the answer to a state-balance challenge
BalanceCompared(t) ==
  /\ Returned(t) /\ Found(t) /\ ~PastExpiry(t)
  /\ frame[t].pending.Challenge.ChallengeType = StateBalance

\* C31: for state-balance challenges the comparator returns true exactly
\* when the two answers, trimmed, lower-cased and without an optional 0x
\* prefix, are numerically equal as hexadecimal integers; if either side
\* does not parse it falls back to string equality
C31_BalanceComparator ==
  \A t \in Threads :
    BalanceCompared(t) =>
      /\ frame[t].result.Passed
           <=> BalancesMatch(frame[t].response.Answer, frame[t].pending.ExpectedAnswer)
      /\ compareAnswers(frame[t].response.Answer, frame[t].pending.ExpectedAnswer,
                        StateBalance)
           <=> BalancesMatch(frame[t].response.Answer, frame[t].pending.ExpectedAnswer)

\* the answer " 0X0A" with a newline passed against the reference 0x000a
C31_Witness ==
  \E t \in Threads :
    /\ BalanceCompared(t)
    /\ frame[t].response.Answer = BalanceTenSpaced
    /\ frame[t].pending.ExpectedAnswer = BalanceTenPadded
    /\ frame[t].result.Passed

\* ------------------------------------------------------------------------
\* Failure reasons
\* ------------------------------------------------------------------------

\* C32: every result returned by VerifyResponse or VerifyExposedRPC has a
\* non-empty failure reason if and only if it has not passed, also when the
\* candidate node cannot be reached or answers with an RPC error
C32_ReasonIffFailed ==
  \A t \in Threads :
    pc[t] = "done" => (frame[t].result.FailureReason # "" <=> ~frame[t].result.Passed)

\* the same for the results of VerifyResponse alone
C32_ReasonIffFailedSubmitted ==
  \A t \in Threads :
    Returned(t) => (frame[t].result.FailureReason # "" <=> ~frame[t].result.Passed)

\* ------------------------------------------------------------------------
\* Registration
\* ------------------------------------------------------------------------

\* the node id is registered in this step
Registered(id) == id \notin DOMAIN nodes /\ id \in DOMAIN nodes'

\* registration bonus by node type
BonusOfType(nodeType) ==
  IF nodeType = "bsc-archive" THEN 100
  ELSE IF nodeType = "bsc-full" THEN 50
  ELSE IF nodeType \in {"bsc-fast", "opbnb-full"} THEN 40
  ELSE IF nodeType = "opbnb-fast" THEN 30
  ELSE 0

\* C33: RegisterNode creates a node that is active, Clean, has warning count
\* 0, an empty ring of suspicious events and TotalPoints equal to the
\* registration bonus of its node type, and adds its ID to the node list of
\* its wallet
C33_FreshNode ==
  [][\A id \in DOMAIN nodes' :
       Registered(id) =>
         LET node   == nodes'[id]
             wallet == node.WalletAddress
         IN  /\ node.IsActive
             /\ node.CheatStatus = StatusClean
             /\ node.WarningCount = 0
             /\ node.SuspiciousEvents = <<>>
             /\ node.TotalPoints = BonusOfType(node.NodeType)
             /\ wallet \in DOMAIN nodesByWallet'
             /\ nodesByWallet'[wallet] = Append(walletNodes(wallet), id)
             /\ \A w \in DOMAIN nodesByWallet : w # wallet =>
                  nodesByWallet'[w] = nodesByWallet[w]]_vars

\* nodes of all six types are registered; the node of the unknown type has
\* no points and is the last of the three nodes of its wallet
C33_Witness ==
  /\ DOMAIN nodes = {node.ID : node \in TierNodes}
  /\ nodes[UnknownTier].TotalPoints = 0
  /\ nodes[BscArchive].TotalPoints = 100
  /\ Len(nodesByWallet["0xw2"]) = 3
  /\ nodesByWallet["0xw2"][3] = UnknownTier

\* ------------------------------------------------------------------------
\* The statistics of a recorded result
\* ------------------------------------------------------------------------

\* a result for the identifier id is appended to its history in this step
AppendedFor(id) ==
  /\ id \in DOMAIN verificationHistory'
  /\ verificationHistory'[id] # historyOf(id)

\* the result appended last
LastRecorded(id) == verificationHistory'[id][Len(verificationHistory'[id])]

\* C34: RecordVerificationResult for a registered node increments exactly
\* one of TotalChallengesPassed (passed result) and TotalChallengesFailed
\* (failed result) by 1 and sets LastVerifiedAt to the timestamp of the
\* result; for an identifier that is not registered it only appends to the
\* history and changes no node record
C34_StatsOfResult ==
  [][\A id \in NodeIDs :
       AppendedFor(id) =>
         IF id \in DOMAIN nodes
           THEN /\ nodes'[id].TotalChallengesPassed =
                     nodes[id].TotalChallengesPassed + (IF LastRecorded(id).Passed THEN 1 ELSE 0)
                /\ nodes'[id].TotalChallengesFailed =
                     nodes[id].TotalChallengesFailed + (IF LastRecorded(id).Passed THEN 0 ELSE 1)
                /\ nodes'[id].LastVerifiedAt = LastRecorded(id).Timestamp
           ELSE /\ nodes' = nodes
                /\ verificationHistory'[id] = Append(historyOf(id), LastRecorded(id))]_vars

\* a pass and a failure are counted for the registered node, the later one
\* adjudicated before the clock moved on, and a result is in the history of
\* an identifier that is not registered
C34_Witness ==
  /\ ArchiveNode.ID \in DOMAIN nodes
  /\ nodes[ArchiveNode.ID].TotalChallengesPassed = 1
  /\ nodes[ArchiveNode.ID].TotalChallengesFailed = 1
  /\ nodes[ArchiveNode.ID].LastVerifiedAt = ExpiresIn
  /\ now > ExpiresIn
  /\ FastNode.ID \notin DOMAIN nodes
  /\ Len(historyOf(FastNode.ID)) > 0

\* ------------------------------------------------------------------------
\* The lock of the pending map
\* ------------------------------------------------------------------------

\* goroutine t is inside a call to the reference node
InRPC(t) == pc[t] = "calling"

\* goroutine t holds the lock of the pending map
HoldsMapLock(t) == verifierMu = t

\* no goroutine is inside an RPC call while it holds the lock
C35_NoCallUnderLock == \A t \in Threads : ~(InRPC(t) /\ HoldsMapLock(t))

\* while a goroutine holds the lock nothing changes but the pending map: it
\* generates no challenge, starts no call and takes no answer, and nobody
\* else writes the map
C35_MapStepsOnly ==
  \A t \in Threads :
    HoldsMapLock(t) =>
      /\ frame'[t] = frame[t]
      /\ ~InRPC(t)'
      /\ pendingChallenges' # pendingChallenges => pc[t] = "locked" /\ pc'[t] = "stored"
      /\ pc'[t] # pc[t] => pendingChallenges' # pendingChallenges \/ ~HoldsMapLock(t)'

\* C35: no call to the reference gateway or to a candidate is made while
\* the lock of the pending map is held: CreateChallenge, VerifyResponse and
\* CleanupExpiredChallenges hold it only around the lookup, the insert and
\* the delete
C35_LockAroundMapOnly ==
  /\ []C35_NoCallUnderLock
  /\ [][C35_MapStepsOnly]_vars

\* one handler holds the lock for its insert while the other is inside its
\* call to the reference node
C35_Witness ==
  \E t \in Threads : \E u \in Threads :
    /\ HoldsMapLock(t)
    /\ pc[t] = "locked"
    /\ InRPC(u)

\* ------------------------------------------------------------------------
\* The amounts of an uptime award
\* ------------------------------------------------------------------------

\* max(1, PointsPerHour / 12) of the node type
PointsPerInterval(nodeType) ==
  IF PointsPerHour(nodeType) \div 12 > 1 THEN PointsPerHour(nodeType) \div 12 ELSE 1

\* the node is active and neither Flagged nor Banned
InGoodStanding(node) ==
  node.IsActive /\ node.CheatStatus \notin {StatusFlagged, StatusBanned}

\* a call made now, with any minutes, adds the minutes and the points of
\* an interval to a node in good standing and changes no field of an
\* inactive node
C36_AmountsOfCall ==
  \A id \in DOMAIN nodes : \A minutesOnline \in MinutesOnline :
    LET after == awardUptime(nodes[id], minutesOnline, now)
    IN  /\ InGoodStanding(nodes[id]) =>
             /\ after.TotalUptimeMinutes = nodes[id].TotalUptimeMinutes + minutesOnline
             /\ after.TotalPoints =
                  nodes[id].TotalPoints + PointsPerInterval(nodes[id].NodeType)
        /\ ~nodes[id].IsActive => after = nodes[id]

\* the totals of a node move in no step but by these amounts, on a node in
\* good standing, and a call never registers a node
C36_AmountsOfStep ==
  /\ \A id \in DOMAIN nodes :
       (\/ nodes'[id].TotalPoints # nodes[id].TotalPoints
        \/ nodes'[id].TotalUptimeMinutes # nodes[id].TotalUptimeMinutes) =>
         /\ InGoodStanding(nodes[id])
         /\ nodes'[id].TotalPoints =
              nodes[id].TotalPoints + PointsPerInterval(nodes[id].NodeType)
         /\ nodes'[id].TotalUptimeMinutes - nodes[id].TotalUptimeMinutes \in MinutesOnline
  /\ NobodyID \notin DOMAIN nodes'

\* C36: for an active node that is neither Flagged nor Banned each
\* AwardUptimePoints call adds minutesOnline to TotalUptimeMinutes and
\* max(1, PointsPerHour / 12) to TotalPoints; for an unknown or an inactive
\* node it changes nothing
C36_AwardAmounts ==
  /\ []C36_AmountsOfCall
  /\ [][C36_AmountsOfStep]_vars

\* the full node got the points of a call that reported no minutes, and
\* the node of the unknown type, banned and cleared since, got the points
\* and the minutes of one interval
C36_Witness ==
  /\ {BscFull, UnknownTier} \subseteq DOMAIN nodes
  /\ nodes[BscFull].TotalPoints = 51
  /\ nodes[BscFull].TotalUptimeMinutes = 0
  /\ nodes[UnknownTier].TotalPoints = 1
  /\ nodes[UnknownTier].TotalUptimeMinutes = UptimeInterval
  /\ nodes[UnknownTier].CheatStatus = StatusClean
  /\ ~nodes[UnknownTier].IsActive

\* ------------------------------------------------------------------------
\* The node a pass is attributed to
\* ------------------------------------------------------------------------

\* C37: the NodeID of a passing VerifyResponse result equals the NodeID
\* stored in the pending challenge, whatever NodeID the response claims
C37_PassForIssuedNode ==
  \A t \in Threads :
    (Returned(t) /\ Found(t) /\ frame[t].result.Passed) =>
      frame[t].result.NodeID = frame[t].pending.Challenge.NodeID

\* no pass is in the history of a node for a challenge issued to another
C37_PassRecordedForIssuedNode ==
  \A t \in Threads : \A id \in DOMAIN verificationHistory :
    (/\ pc[t] = "idle" /\ frame[t].op = "VerifyResponse" /\ Found(t)
     /\ frame[t].result.Passed /\ frame[t].result.NodeID = id) =>
      id = frame[t].pending.Challenge.NodeID

\* ------------------------------------------------------------------------
\* Bans, reviews and the warning count
\* ------------------------------------------------------------------------

\* C38: in every state reachable through RegisterNode,
\* RecordVerificationResult, AddSuspiciousEvent, AwardUptimePoints and
\* SetNodeCheatStatus a node whose cheat status is Banned has IsActive=false
C38_BannedInactive ==
  \A id \in DOMAIN nodes :
    nodes[id].CheatStatus = StatusBanned => ~nodes[id].IsActive

\* a node that earned points and results was banned
C38_Witness ==
  /\ IsBanned(ArchiveNode.ID)
  /\ ~nodes[ArchiveNode.ID].IsActive
  /\ nodes[ArchiveNode.ID].TotalUptimeMinutes > 0
  /\ Len(historyOf(ArchiveNode.ID)) > 0

\* no step makes an inactive node active
C39_NeverReactivated ==
  \A id \in DOMAIN nodes : ~nodes[id].IsActive => ~nodes'[id].IsActive

\* AwardUptimePoints called now leaves every field of an inactive node
C39_AwardNoOp ==
  \A id \in DOMAIN nodes : \A minutesOnline \in MinutesOnline :
    ~nodes[id].IsActive => awardUptime(nodes[id], minutesOnline, now) = nodes[id]

\* a step in which CreateChallenge is called or stores a challenge is for
\* a node that is registered and active
C39_RequestRefused ==
  /\ created' # created =>
       created'.node \in DOMAIN nodes /\ nodes[created'.node].IsActive
  /\ \A c \in DOMAIN pendingChallenges' \ DOMAIN pendingChallenges :
       /\ pendingChallenges'[c].Challenge.NodeID \in DOMAIN nodes
       /\ nodes[pendingChallenges'[c].Challenge.NodeID].IsActive

\* C39: none of RegisterNode, RecordVerificationResult, AddSuspiciousEvent,
\* AwardUptimePoints and SetNodeCheatStatus sets IsActive back to true:
\* after a ban and a clear the node is Clean and inactive, AwardUptimePoints
\* stays a no-op for it and RequestChallenge keeps refusing it
C39_InactiveForGood ==
  /\ [][C39_NeverReactivated]_vars
  /\ []C39_AwardNoOp
  /\ [][C39_RequestRefused]_vars

\* the node earned uptime and was issued a challenge, was banned and
\* cleared, and a suspicious event has been counted since
C39_Witness ==
  /\ ArchiveNode.ID \in DOMAIN nodes
  /\ nodes[ArchiveNode.ID].CheatStatus = StatusClean
  /\ ~nodes[ArchiveNode.ID].IsActive
  /\ nodes[ArchiveNode.ID].WarningCount = 1
  /\ nodes[ArchiveNode.ID].TotalUptimeMinutes = UptimeInterval
  /\ \E c \in DOMAIN pendingChallenges :
       pendingChallenges[c].Challenge.NodeID = ArchiveNode.ID

\* C40: in every state reachable through RegisterNode,
\* RecordVerificationResult, AddSuspiciousEvent, AwardUptimePoints and
\* SetNodeCheatStatus a node whose cheat status is Clean has a warning
\* count of at most 1
C40_CleanFewWarnings ==
  \A id \in DOMAIN nodes :
    nodes[id].CheatStatus = StatusClean => nodes[id].WarningCount <= 1

\* a node with warnings was cleared and one event has been counted since
C40_Witness ==
  /\ ArchiveNode.ID \in DOMAIN nodes
  /\ nodes[ArchiveNode.ID].CheatStatus = StatusClean
  /\ nodes[ArchiveNode.ID].CheatReason = "reviewed"
  /\ nodes[ArchiveNode.ID].WarningCount = 1
  /\ Len(nodes[ArchiveNode.ID].SuspiciousEvents) = 1

====
